---- MODULE Spec2Model ----
(***************************************************************************)
(* TNB-Text: the real-time synchronisation, presence and signalling core   *)
(* of src/App.tsx, with the thread addressing of src/helpers.ts.           *)
(*                                                                         *)
(* Strings are sequences of UTF-16 code units, so that the default         *)
(* Array.prototype.sort order and the join of getChatId are computed and   *)
(* not assumed.  The remote store is a set of keyed collections; a         *)
(* collection (or an optional value) that is absent is the empty function  *)
(* Null, which is what snapshot.val() reports as a falsy value.            *)
(***************************************************************************)
EXTENDS Integers, Sequences, FiniteSets, TLC

VARIABLES
    \* the remote store (Firebase Realtime Database), one variable per collection
    dbUsers, dbChats, dbGroups, dbRequests, dbCalls, dbTyping, dbOnDisconnect,
    \* the identity provider: the signed-in uid of each client and the
    \* session-state notifications not yet handed to the onAuthState callback
    authUser, authQueue,
    \* React state of each running App (one per client)
    loading, currentUser, activeTab, activeChatId, isGroupChat,
    users, onlineUsers, groups, chats, requests, typingState,
    callLogs, incomingCall, activeCall,
    \* subscriptions of each client: profile listeners (never unsubscribed),
    \* the dependency value and the closure of the data-listeners effect, and
    \* the snapshots emitted by the store and not yet processed
    profInbox, effectDep, subs, inbox,
    \* history: the handler that ran last (if a property reads it), the last snapshot
    \* each data listener processed, and for which identity each local
    \* container was produced
    ev, last, producedFor,
    \* what the run has used of its bounds: the store events that no modelled
    \* client caused, the one collection they touch, the sign-ins, and the
    \* calls each client has completed
    budget,
    \* the chat view of each client: typingTimeoutRef (App.tsx:41), one slot
    \* per chat id with the uid its callback closes over, whether the
    \* timer is still to fire and how many timers are armed for the chat;
    \* whether the text of the input is non-blank
    \* (App.tsx:744); and the clock that orders the keys api.push generates
    typingTimeoutRef, inputText, pushClock

dbVars    == <<dbUsers, dbChats, dbGroups, dbRequests, dbCalls, dbTyping, dbOnDisconnect>>
authVars  == <<authUser, authQueue>>
navVars   == <<activeTab, activeChatId, isGroupChat>>
dataVars  == <<users, onlineUsers, groups, chats, requests, typingState>>
callVars  == <<callLogs, incomingCall, activeCall>>
subVars   == <<profInbox, effectDep, subs, inbox>>
chatVars  == <<typingTimeoutRef, inputText, pushClock>>
vars      == <<dbVars, authVars, loading, currentUser, navVars, dataVars, callVars,
               subVars, ev, last, producedFor, budget, chatVars>>

----------------------------------------------------------------------------
(* Bounds of the model. *)

\* longest identifier drawn for the thread-addressing specification
MaxIdLen == 2
\* most snapshots (or session notifications) waiting in one subscription
MaxInbox == 1
\* most store events (writes by other writers, repeated notifications) that
\* no modelled client caused; in one run they all touch the same collection
MaxExtEvents == 2
\* most calls a session completes
MaxCallLogs == 1
\* most sign-ins made in one App instance
MaxLogins == 2
\* most keys generated by api.push
MaxPushes == 2
\* the latest reading of Date.now() on any client
MaxTime == 1

----------------------------------------------------------------------------
(* Strings. *)

Null == <<>>

\* '_' , the delimiter of getChatId (helpers.ts:33) and of the group prefix
Underscore == 95

\* "group_" (App.tsx:329)
GroupPrefix == <<103, 114, 111, 117, 112, Underscore>>

\* "u1", "u2" : the two accounts of the session model
U1 == <<117, 49>>
U2 == <<117, 50>>

\* s < t in the order of the default Array.prototype.sort comparator:
\* code unit by code unit, a proper prefix first
StrLess(s, t) ==
    \E i \in 1..Len(t) :
        /\ \A j \in 1..(i - 1) : j <= Len(s) /\ s[j] = t[j]
        /\ (i > Len(s) \/ s[i] < t[i])

RECURSIVE SortedInsert(_, _)
\* insert x into the sorted array arr, after the elements that are not greater;
\* an undefined element (Null; no identifier is the empty string) sorts last
SortedInsert(arr, x) ==
    IF arr = <<>> THEN <<x>>
    ELSE IF x # Null /\ (Head(arr) = Null \/ StrLess(x, Head(arr))) THEN <<x>> \o arr
    ELSE <<Head(arr)>> \o SortedInsert(Tail(arr), x)

RECURSIVE ArraySort(_)
\* Array.prototype.sort() without a comparator, on an array of strings
ArraySort(arr) ==
    IF arr = <<>> THEN <<>>
    ELSE SortedInsert(ArraySort(SubSeq(arr, 1, Len(arr) - 1)), arr[Len(arr)])

\* the mutant of ArraySort: the array is left in argument order
ArrayUnsorted(arr) == arr

RECURSIVE ArrayJoin(_, _)
\* Array.prototype.join(sep)
ArrayJoin(arr, sep) ==
    IF arr = <<>> THEN <<>>
    ELSE IF Len(arr) = 1 THEN arr[1]
    ELSE arr[1] \o sep \o ArrayJoin(Tail(arr), sep)

\* the mutant of getChatId: joined in argument order
getChatIdUnsorted(uid1, uid2) == ArrayJoin(<<uid1, uid2>>, <<Underscore>>)

\* helpers.ts:32  getChatId
getChatId(uid1, uid2) == ArrayJoin(ArraySort(<<uid1, uid2>>), <<Underscore>>)

\* the mutant of groupChatId: the bare group id
groupChatIdBare(groupId) == groupId

\* App.tsx:329  `group_${target.id}`
groupChatId(groupId) == GroupPrefix \o groupId

----------------------------------------------------------------------------
(* Values of the store and of the local state. *)

Clients == {"c1", "c2"}
Uids == {U1, U2}
Colls == {"users", "chats", "groups", "requests", "calls", "typing"}
CallTypes == {"voice", "video"}

\* `${uid}` in a store path: an undefined uid is spelled "undefined"
PathKey(uid) ==
    IF uid = Null THEN <<117, 110, 100, 101, 102, 105, 110, 101, 100>> ELSE uid

\* types.ts UserProfile, reduced to the fields the core reads; a field that
\* was never written (undefined) is Null
Profile(u, s) == [uid |-> u, status |-> s]

\* currentUser?.uid
CurUid(c) == IF currentUser[c] = Null THEN Null ELSE currentUser[c].uid

RECURSIVE SetToSeq(_)
SetToSeq(S) ==
    IF S = {} THEN <<>>
    ELSE LET x == CHOOSE y \in S : TRUE IN <<x>> \o SetToSeq(S \ {x})

RECURSIVE ArrayReverse(_)
ArrayReverse(arr) ==
    IF arr = <<>> THEN <<>> ELSE ArrayReverse(Tail(arr)) \o <<Head(arr)>>

\* the mutant of ObjectKeys: the children are listed in decreasing key order
ObjectKeysReversed(obj) == ArrayReverse(ArraySort(SetToSeq(DOMAIN obj)))

\* Object.keys of a snapshot value: the store lists children in key order
ObjectKeys(obj) == ArraySort(SetToSeq(DOMAIN obj))

\* Object.values of a snapshot value
ObjectValues(obj) ==
    LET keys == ObjectKeys(obj) IN [i \in 1..Len(keys) |-> obj[keys[i]]]

Range(seq) == {seq[i] : i \in 1..Len(seq)}

\* obj with the child at key set to val (api.set on a child path)
SetChild(obj, key, val) ==
    [k \in (DOMAIN obj) \cup {key} |-> IF k = key THEN val ELSE obj[k]]

\* obj without the child at key (api.remove on a child path)
RemoveChild(obj, key) == [k \in (DOMAIN obj) \ {key} |-> obj[k]]

\* api.set(users/<uid>/status, s), and the status part of
\* api.update(users/<uid>, {..., status: s}): a record that does not exist
\* yet is created with that field alone
WriteStatus(db, uid, s) ==
    LET key == PathKey(uid) IN
    IF key \in DOMAIN db THEN [db EXCEPT ![key].status = s]
    ELSE SetChild(db, key, Profile(Null, s))

\* the store as one value
Db == [users |-> dbUsers, chats |-> dbChats, groups |-> dbGroups,
       requests |-> dbRequests, calls |-> dbCalls, typing |-> dbTyping]

\* the value at the location a data listener of a session for uid watches
\* (App.tsx:80, 92, 108, 115, 122, 137)
View(db, k, uid) ==
    IF k = "calls"
    THEN IF PathKey(uid) \in DOMAIN db.calls THEN db.calls[PathKey(uid)] ELSE Null
    ELSE db[k]

\* the value at users/<uid>, which the profile listener watches (App.tsx:56)
ProfileAt(db, uid) == IF uid \in DOMAIN db.users THEN db.users[uid] ELSE Null

EmptyInbox == [k \in Colls |-> <<>>]

\* the bound on waiting notifications: a step is taken only if every
\* subscription can hold what the step emits
Fits ==
    \A c \in Clients :
        /\ \A k \in Colls : Len(inbox'[c][k]) <= MaxInbox
        /\ \A u \in DOMAIN profInbox'[c] : Len(profInbox'[c][u]) <= MaxInbox
        /\ Len(authQueue'[c]) <= MaxInbox

\* api.onValue, data listeners: after a write, the store emits the new value
\* of every watched location that changed, in order, to its subscribers.
\* base is the inboxes as the running handler leaves them.
EmitData(base) ==
    inbox' = [c \in Clients |-> [k \in Colls |->
        IF /\ subs[c] # Null
           /\ View(Db', k, subs[c].uid) # View(Db, k, subs[c].uid)
        THEN Append(base[c][k], View(Db', k, subs[c].uid))
        ELSE base[c][k]]]

\* api.onValue, profile listeners (App.tsx:57)
EmitProfile(base) ==
    profInbox' = [c \in Clients |-> [u \in DOMAIN base[c] |->
        IF ProfileAt(Db', u) # ProfileAt(Db, u)
        THEN Append(base[c][u], ProfileAt(Db', u))
        ELSE base[c][u]]]

\* the record of the handler that ran last, kept for the handlers whose
\* input a property needs: openChat and the profile listener
Event(op, c, data) == [op |-> op, c |-> c, data |-> data]
NoEvent == Event("none", "none", Null)

\* nothing processed yet by a listener
NotSeen == [seen |-> FALSE, data |-> Null, dup |-> FALSE, before |-> Null]

\* the record of the snapshot a data listener of client c processed last:
\* dup says that it repeats the snapshot the same listener processed just
\* before, and before is then the local container as that delivery left it
Delivered(c, k, data, before) ==
    LET dup == last[c][k].seen /\ last[c][k].data = data IN
    [last EXCEPT ![c][k] = [seen |-> TRUE, data |-> data, dup |-> dup,
                            before |-> IF dup THEN before ELSE Null]]

----------------------------------------------------------------------------
(* Initial state: the store holds two registered accounts, both offline;    *)
(* every App has just been constructed (App.tsx:9-42).                      *)

InitStore ==
    /\ dbUsers = [u \in Uids |-> Profile(u, "offline")]
    /\ dbChats = Null
    /\ dbGroups = Null
    /\ dbRequests = Null
    /\ dbCalls = Null
    /\ dbTyping = Null
    /\ dbOnDisconnect = {}

InitApp ==
    /\ authUser = [c \in Clients |-> Null]
    /\ authQueue = [c \in Clients |-> <<Null>>]
    /\ loading = [c \in Clients |-> TRUE]
    /\ currentUser = [c \in Clients |-> Null]
    /\ activeTab = [c \in Clients |-> "home"]
    /\ activeChatId = [c \in Clients |-> Null]
    /\ isGroupChat = [c \in Clients |-> FALSE]
    /\ users = [c \in Clients |-> <<>>]
    /\ onlineUsers = [c \in Clients |-> {}]
    /\ groups = [c \in Clients |-> <<>>]
    /\ chats = [c \in Clients |-> Null]
    /\ requests = [c \in Clients |-> <<>>]
    /\ typingState = [c \in Clients |-> Null]
    /\ callLogs = [c \in Clients |-> <<>>]
    /\ incomingCall = [c \in Clients |-> Null]
    /\ activeCall = [c \in Clients |-> Null]
    /\ profInbox = [c \in Clients |-> Null]
    /\ effectDep = [c \in Clients |-> Null]
    /\ subs = [c \in Clients |-> Null]
    /\ inbox = [c \in Clients |-> EmptyInbox]
    /\ ev = NoEvent
    /\ last = [c \in Clients |-> [k \in Colls |-> NotSeen]]
    /\ producedFor = [c \in Clients |->
          [users |-> Null, chats |-> Null, typingState |-> Null,
           callLogs |-> <<>>, activeCall |-> Null, incomingCall |-> Null]]
    /\ budget = [ext |-> 0, focus |-> "none", logins |-> 0,
                   ends |-> [c \in Clients |-> 0]]
    /\ typingTimeoutRef = [c \in Clients |-> Null]
    /\ inputText = [c \in Clients |-> FALSE]
    /\ pushClock = 0

----------------------------------------------------------------------------
(* The store's side: other writers, and repeated notifications. *)

ThreadU1U2 == getChatId(U1, U2)
KeyM1 == <<109, 49>>
KeyM2 == <<109, 50>>
KeyG1 == <<103, 49>>
KeyR1 == <<114, 49>>

\* types.ts Message, Group, FriendRequest, reduced to the fields the core reads
Message(key, sender) == [id |-> key, senderId |-> sender]
Group(id, members) == [id |-> id, memberIds |-> members]
FriendRequest(id, from, to, status) == [id |-> id, from |-> from, to |-> to, status |-> status]

OneChild(key, val) == [k \in {key} |-> val]

\* the values another writer may leave in a collection
ExtSnaps(k) ==
    IF k = "users"
    THEN {Null} \cup {[u \in Uids |-> Profile(u, st)] : st \in {"online", "offline"}}
    ELSE IF k = "chats"
    THEN {Null,
          OneChild(ThreadU1U2, OneChild(KeyM1, Message(KeyM1, U2))),
          OneChild(ThreadU1U2, [m \in {KeyM1, KeyM2} |-> Message(m, IF m = KeyM1 THEN U2 ELSE U1)])}
    ELSE IF k = "groups"
    THEN {Null, OneChild(KeyG1, Group(KeyG1, <<U1, U2>>))}
    ELSE IF k = "requests"
    THEN {Null,
          OneChild(KeyR1, FriendRequest(KeyR1, U2, U1, "pending")),
          OneChild(KeyR1, FriendRequest(KeyR1, U2, U1, "accepted"))}
    ELSE IF k = "calls"
    THEN {Null, OneChild(U1, [callerId |-> U2, type |-> "voice"])}
    ELSE {Null,
          OneChild(ThreadU1U2, OneChild(U2, TRUE)),
          OneChild(ThreadU1U2, [u \in Uids |-> TRUE])}

\* a writer that is not one of the modelled clients (another device, the
\* store's console) replaces the content of one collection
StoreChange(k, v) ==
    /\ UNCHANGED chatVars
    /\ budget.ext < MaxExtEvents
    /\ budget.focus \in {"none", k}
    /\ v # Db[k]
    /\ dbUsers' = IF k = "users" THEN v ELSE dbUsers
    /\ dbChats' = IF k = "chats" THEN v ELSE dbChats
    /\ dbGroups' = IF k = "groups" THEN v ELSE dbGroups
    /\ dbRequests' = IF k = "requests" THEN v ELSE dbRequests
    /\ dbCalls' = IF k = "calls" THEN v ELSE dbCalls
    /\ dbTyping' = IF k = "typing" THEN v ELSE dbTyping
    /\ EmitData(inbox)
    /\ EmitProfile(profInbox)
    /\ budget' = [budget EXCEPT !.ext = @ + 1, !.focus = k]
    /\ UNCHANGED authVars
    /\ Fits
    /\ UNCHANGED <<dbOnDisconnect, loading, currentUser, navVars, dataVars,
                   callVars, effectDep, subs, ev, last, producedFor>>

\* at-least-once delivery: the store repeats the notification it emitted last
\* to one data listener
Redeliver(c, k) ==
    /\ UNCHANGED chatVars
    /\ budget.ext < MaxExtEvents
    /\ budget.focus \in {"none", k}
    /\ subs[c] # Null
    /\ Len(inbox[c][k]) < MaxInbox
    /\ LET emitted == IF inbox[c][k] = <<>> THEN View(Db, k, subs[c].uid)
                      ELSE inbox[c][k][Len(inbox[c][k])]
       IN inbox' = [inbox EXCEPT ![c][k] = Append(@, emitted)]
    /\ budget' = [budget EXCEPT !.ext = @ + 1, !.focus = k]
    /\ UNCHANGED <<dbVars, authVars, loading, currentUser, navVars, dataVars,
                   callVars, profInbox, effectDep, subs, ev, last, producedFor>>

----------------------------------------------------------------------------
(* Session: the identity provider, the profile listener, the data effect.   *)

\* a user event can be handled: the App is past "Initializing" (App.tsx:388)
\* and React has flushed the effects of the last render
UiReady(c) == ~loading[c] /\ effectDep[c] = CurUid(c)

\* App.tsx:53-71  the onAuthState callback
onAuthState(c) ==
    /\ UNCHANGED chatVars
    /\ authQueue[c] # <<>>
    /\ LET user == Head(authQueue[c]) IN
       /\ IF user # Null
          THEN \* api.onValue(userRef, ...): the unsubscribe function is dropped
               /\ profInbox' = [profInbox EXCEPT ![c] =
                     [u \in (DOMAIN @) \cup {user} |->
                         IF u = user
                         THEN Append(IF u \in DOMAIN @ THEN @[u] ELSE <<>>,
                                     ProfileAt(Db, user))
                         ELSE @[u]]]
               /\ UNCHANGED currentUser
          ELSE /\ currentUser' = [currentUser EXCEPT ![c] = Null]
               /\ UNCHANGED profInbox
       /\ ev' = NoEvent
    /\ loading' = [loading EXCEPT ![c] = FALSE]
    /\ authQueue' = [authQueue EXCEPT ![c] = Tail(@)]
    /\ UNCHANGED inbox
    /\ Fits
    /\ UNCHANGED <<dbVars, authUser, navVars, dataVars, callVars, effectDep, subs,
                   producedFor, last, budget>>

\* the mutant of ProfileStatusWrite: the listener writes nothing
ProfileStatusKept(db, uid) == db

\* App.tsx:62-63  Set Presence
ProfileStatusWrite(db, uid) == WriteStatus(db, uid, "online")

\* App.tsx:57-66  the profile listener on users/<uid>
profileListener(c, uid) ==
    /\ UNCHANGED chatVars
    /\ uid \in DOMAIN profInbox[c]
    /\ profInbox[c][uid] # <<>>
    /\ LET val == Head(profInbox[c][uid])
           rest == [profInbox EXCEPT ![c][uid] = Tail(@)]
       IN
       /\ IF val # Null
          THEN /\ currentUser' = [currentUser EXCEPT ![c] = val]
               /\ dbUsers' = ProfileStatusWrite(dbUsers, uid)
               /\ dbOnDisconnect' = dbOnDisconnect \cup {uid}
          ELSE UNCHANGED <<currentUser, dbUsers, dbOnDisconnect>>
       /\ UNCHANGED <<dbChats, dbGroups, dbRequests, dbCalls, dbTyping>>
       /\ EmitData(inbox)
       /\ EmitProfile(rest)
       /\ ev' = Event("profileListener", c, [uid |-> uid, val |-> val])
    /\ UNCHANGED authVars
    /\ Fits
    /\ UNCHANGED <<loading, navVars, dataVars, callVars, effectDep, subs,
                   producedFor, last, budget>>

\* App.tsx:76-155  the data-listeners effect, run by React after a render in
\* which currentUser?.uid differs from the value it had at the last run: the
\* cleanup of the last run first (152-154), then the body
dataEffect(c) ==
    /\ UNCHANGED chatVars
    /\ effectDep[c] # CurUid(c)
    /\ effectDep' = [effectDep EXCEPT ![c] = CurUid(c)]
    /\ IF currentUser[c] = Null
       THEN /\ subs' = [subs EXCEPT ![c] = Null]
            /\ inbox' = [inbox EXCEPT ![c] = EmptyInbox]
       ELSE \* the callbacks close over this render's users and activeCall
            /\ subs' = [subs EXCEPT ![c] =
                  [uid |-> CurUid(c), users |-> users[c], activeCall |-> activeCall[c]]]
            /\ inbox' = [inbox EXCEPT ![c] = [k \in Colls |-> <<View(Db, k, CurUid(c))>>]]
    /\ last' = [last EXCEPT ![c] = [k \in Colls |-> NotSeen]]
    /\ ev' = NoEvent
    /\ UNCHANGED <<dbVars, authVars, loading, currentUser, navVars, dataVars, callVars,
                   profInbox, producedFor, budget>>

\* App.tsx:186-200  handleLogin, on a successful sign-in
handleLogin(c, uid) ==
    /\ UNCHANGED chatVars
    /\ UiReady(c)
    /\ currentUser[c] = Null
    /\ budget.logins < MaxLogins
    /\ budget' = [budget EXCEPT !.logins = @ + 1]
    /\ authUser' = [authUser EXCEPT ![c] = uid]
    /\ authQueue' = [authQueue EXCEPT ![c] = IF authUser[c] # uid THEN Append(@, uid) ELSE @]
    /\ dbUsers' = WriteStatus(dbUsers, uid, "online")
    /\ UNCHANGED <<dbChats, dbGroups, dbRequests, dbCalls, dbTyping, dbOnDisconnect>>
    /\ EmitData(inbox)
    /\ EmitProfile(profInbox)
    /\ activeTab' = [activeTab EXCEPT ![c] = "home"]
    /\ ev' = NoEvent
    /\ Fits
    /\ UNCHANGED <<loading, currentUser, activeChatId, isGroupChat, dataVars, callVars,
                   effectDep, subs, producedFor, last>>

\* the mutant of LogoutUser: the session's user is kept
LogoutUserKept(user) == user

\* App.tsx:207  setCurrentUser(null)
LogoutUser(user) == Null

\* App.tsx:202-208  handleLogout, from the profile view (App.tsx:437, 871)
handleLogout(c) ==
    /\ UNCHANGED chatVars
    /\ UiReady(c)
    /\ currentUser[c] # Null
    /\ activeTab[c] = "profile"
    /\ activeCall[c] = Null
    /\ dbUsers' = WriteStatus(dbUsers, CurUid(c), "offline")
    /\ UNCHANGED <<dbChats, dbGroups, dbRequests, dbCalls, dbTyping, dbOnDisconnect>>
    /\ EmitData(inbox)
    /\ EmitProfile(profInbox)
    /\ authUser' = [authUser EXCEPT ![c] = Null]
    /\ authQueue' = [authQueue EXCEPT ![c] = IF authUser[c] # Null THEN Append(@, Null) ELSE @]
    /\ currentUser' = [currentUser EXCEPT ![c] = LogoutUser(@)]
    /\ ev' = NoEvent
    /\ Fits
    /\ UNCHANGED <<loading, navVars, dataVars, callVars, effectDep, subs,
                   producedFor, last, budget>>

----------------------------------------------------------------------------
(* The data listeners (App.tsx:80-150): what each callback makes of a       *)
(* snapshot value, and the callback itself.                                 *)

\* App.tsx:86  the uids of the entries whose status is online
OnlineOf(userList) ==
    {userList[i].uid : i \in {j \in 1..Len(userList) : userList[j].status = "online"}}

\* the mutant of UsersOnValue: an absent snapshot empties the list
UsersOnValueReset(data, old) == IF data # Null THEN ObjectValues(data) ELSE <<>>

\* App.tsx:82-85  Sync Users: the list
UsersOnValue(data, old) == IF data # Null THEN ObjectValues(data) ELSE old

\* the mutant of OnlineOnValue: the set is never narrowed
OnlineOnValueMerged(data, old) ==
    IF data # Null THEN old \cup OnlineOf(ObjectValues(data)) ELSE old

\* App.tsx:86-87  Sync Users: the online set
OnlineOnValue(data, old) == IF data # Null THEN OnlineOf(ObjectValues(data)) ELSE old

\* the mutant of ChatsOnValue: threads of the snapshot are merged into the map
ChatsOnValueMerged(data, old) ==
    [key \in (DOMAIN old) \cup (DOMAIN data) |->
        IF key \in DOMAIN data THEN ObjectValues(data[key]) ELSE old[key]]

\* App.tsx:94-104  Sync Chats
ChatsOnValue(data, old) ==
    IF data # Null THEN [key \in DOMAIN data |-> ObjectValues(data[key])] ELSE Null

\* App.tsx:110-111  Sync Groups
GroupsOnValue(data, old) == IF data # Null THEN ObjectValues(data) ELSE <<>>

\* the mutant of RequestsOnValue: the requests of the snapshot are appended
RequestsOnValueAppended(data, old) == old \o ObjectValues(data)

\* App.tsx:117-118  Sync Requests
RequestsOnValue(data, old) == IF data # Null THEN ObjectValues(data) ELSE <<>>

\* App.tsx:139-149  Sync Typing
TypingOnValue(data, old) ==
    IF data # Null THEN [chatId \in DOMAIN data |-> DOMAIN data[chatId]] ELSE Null

\* users.find(u => u.uid === uid): the first match, or Null (undefined)
FindUser(userList, uid) ==
    LET hits == {i \in 1..Len(userList) : userList[i].uid = uid} IN
    IF hits = {} THEN Null
    ELSE userList[CHOOSE i \in hits : \A j \in hits : i <= j]

\* App.tsx:124-133  Sync Incoming Calls; closure holds the users and the
\* activeCall of the render in which the effect ran
CallsOnValue(data, old, closure) ==
    IF data # Null
    THEN LET caller == FindUser(closure.users, data.callerId) IN
         IF caller # Null /\ closure.activeCall = Null
         THEN [from |-> caller, type |-> data.type]
         ELSE old
    ELSE Null

\* the inboxes once client c has taken the first snapshot of collection k
Taken(c, k) == [inbox EXCEPT ![c][k] = Tail(@)]

\* a snapshot waits in the subscription of client c to collection k
Waiting(c, k) == subs[c] # Null /\ inbox[c][k] # <<>>

Tagged(c, field, uid) == [producedFor EXCEPT ![c][field] = uid]

usersListener(c) ==
    /\ UNCHANGED chatVars
    /\ Waiting(c, "users")
    /\ LET data == Head(inbox[c].users) IN
       /\ users' = [users EXCEPT ![c] = UsersOnValue(data, @)]
       /\ onlineUsers' = [onlineUsers EXCEPT ![c] = OnlineOnValue(data, @)]
       /\ producedFor' = IF data # Null THEN Tagged(c, "users", subs[c].uid) ELSE producedFor
       /\ last' = Delivered(c, "users", data, <<users[c], onlineUsers[c]>>)
    /\ inbox' = Taken(c, "users")
    /\ UNCHANGED <<dbVars, authVars, loading, currentUser, navVars, groups, chats, requests,
                   typingState, callVars, profInbox, effectDep, subs, ev, budget>>

chatsListener(c) ==
    /\ UNCHANGED chatVars
    /\ Waiting(c, "chats")
    /\ LET data == Head(inbox[c].chats) IN
       /\ chats' = [chats EXCEPT ![c] = ChatsOnValue(data, @)]
       /\ last' = Delivered(c, "chats", data, chats[c])
    /\ producedFor' = Tagged(c, "chats", subs[c].uid)
    /\ inbox' = Taken(c, "chats")
    /\ UNCHANGED <<dbVars, authVars, loading, currentUser, navVars, users, onlineUsers, groups,
                   requests, typingState, callVars, profInbox, effectDep, subs, ev, budget>>

groupsListener(c) ==
    /\ UNCHANGED chatVars
    /\ Waiting(c, "groups")
    /\ LET data == Head(inbox[c].groups) IN
       /\ groups' = [groups EXCEPT ![c] = GroupsOnValue(data, @)]
       /\ last' = Delivered(c, "groups", data, groups[c])
    /\ inbox' = Taken(c, "groups")
    /\ UNCHANGED <<dbVars, authVars, loading, currentUser, navVars, users, onlineUsers, chats,
                   requests, typingState, callVars, profInbox, effectDep, subs, producedFor,
                   ev, budget>>

requestsListener(c) ==
    /\ UNCHANGED chatVars
    /\ Waiting(c, "requests")
    /\ LET data == Head(inbox[c].requests) IN
       /\ requests' = [requests EXCEPT ![c] = RequestsOnValue(data, @)]
       /\ last' = Delivered(c, "requests", data, requests[c])
    /\ inbox' = Taken(c, "requests")
    /\ UNCHANGED <<dbVars, authVars, loading, currentUser, navVars, users, onlineUsers, groups,
                   chats, typingState, callVars, profInbox, effectDep, subs, producedFor,
                   ev, budget>>

callsListener(c) ==
    /\ UNCHANGED chatVars
    /\ Waiting(c, "calls")
    /\ LET data == Head(inbox[c].calls) IN
       /\ incomingCall' = [incomingCall EXCEPT ![c] = CallsOnValue(data, @, subs[c])]
       /\ producedFor' = IF incomingCall'[c] # incomingCall[c]
                         THEN Tagged(c, "incomingCall", subs[c].uid) ELSE producedFor
       /\ last' = Delivered(c, "calls", data, incomingCall[c])
    /\ inbox' = Taken(c, "calls")
    /\ UNCHANGED <<dbVars, authVars, loading, currentUser, navVars, dataVars, callLogs,
                   activeCall, profInbox, effectDep, subs, ev, budget>>

typingListener(c) ==
    /\ UNCHANGED chatVars
    /\ Waiting(c, "typing")
    /\ LET data == Head(inbox[c].typing) IN
       /\ typingState' = [typingState EXCEPT ![c] = TypingOnValue(data, @)]
       /\ last' = Delivered(c, "typing", data, typingState[c])
    /\ producedFor' = Tagged(c, "typingState", subs[c].uid)
    /\ inbox' = Taken(c, "typing")
    /\ UNCHANGED <<dbVars, authVars, loading, currentUser, navVars, users, onlineUsers, groups,
                   chats, requests, callVars, profInbox, effectDep, subs, ev, budget>>

----------------------------------------------------------------------------
(* User intents: navigation, opening a thread, call signalling.             *)

\* the App renders its views, not the AuthScreen (App.tsx:390), and no call
\* screen covers them (App.tsx:463, 921)
ViewsShown(c) == UiReady(c) /\ currentUser[c] # Null /\ activeCall[c] = Null

\* App.tsx:460-461, 753-759  BottomNav
onTabChange(c, tab) ==
    /\ UNCHANGED chatVars
    /\ ViewsShown(c)
    /\ activeTab[c] \in {"home", "requests", "calls"}
    /\ tab # activeTab[c]
    /\ activeTab' = [activeTab EXCEPT ![c] = tab]
    /\ ev' = NoEvent
    /\ UNCHANGED <<dbVars, authVars, loading, currentUser, activeChatId, isGroupChat,
                   dataVars, callVars, subVars, producedFor, last, budget>>

\* App.tsx:431, 437  onBack of the chat and profile views
onBack(c) ==
    /\ inputText' = [inputText EXCEPT ![c] = FALSE]
    /\ UNCHANGED <<typingTimeoutRef, pushClock>>
    /\ ViewsShown(c)
    /\ activeTab[c] \in {"chat", "profile"}
    /\ activeTab' = [activeTab EXCEPT ![c] = "home"]
    /\ ev' = NoEvent
    /\ UNCHANGED <<dbVars, authVars, loading, currentUser, activeChatId, isGroupChat,
                   dataVars, callVars, subVars, producedFor, last, budget>>

\* App.tsx:326-336  openChat
openChat(c, target) ==
    /\ inputText' = [inputText EXCEPT ![c] = FALSE]
    /\ UNCHANGED <<typingTimeoutRef, pushClock>>
    /\ currentUser[c] # Null
    /\ IF "memberIds" \in DOMAIN target
       THEN /\ activeChatId' = [activeChatId EXCEPT ![c] = groupChatId(target.id)]
            /\ isGroupChat' = [isGroupChat EXCEPT ![c] = TRUE]
       ELSE /\ activeChatId' = [activeChatId EXCEPT ![c] = getChatId(currentUser[c].uid, target.uid)]
            /\ isGroupChat' = [isGroupChat EXCEPT ![c] = FALSE]
    /\ activeTab' = [activeTab EXCEPT ![c] = "chat"]
    /\ ev' = Event("openChat", c, target)
    /\ UNCHANGED <<dbVars, authVars, loading, currentUser, dataVars, callVars, subVars,
                   producedFor, last, budget>>

\* a property of a record; a property the record does not have is undefined
Field(r, f) == IF f \in DOMAIN r THEN r[f] ELSE Null

\* an optional flag of a record is set
Flag(r, f) == f \in DOMAIN r /\ r[f]

\* App.tsx:395-397  acceptedContacts: of every accepted request, the to of a
\* request the viewer sent and the from of every other request
AcceptedContacts(c) ==
    {IF Field(requests[c][i], "from") = currentUser[c].uid
     THEN Field(requests[c][i], "to") ELSE Field(requests[c][i], "from") :
        i \in {j \in 1..Len(requests[c]) : Field(requests[c][j], "status") = "accepted"}}

\* App.tsx:401-407  the users and groups the home view lists
VisibleUsers(c) ==
    {u \in Range(users[c]) :
        /\ u.uid # CurUid(c)
        /\ \/ Flag(currentUser[c], "isAdmin")
           \/ ~Flag(u, "isPrivate")
           \/ u.uid \in AcceptedContacts(c)}
MyGroups(c) == {g \in Range(groups[c]) : CurUid(c) \in Range(g.memberIds)}

\* App.tsx:685, 692  a row of the home view is clicked
HomeOpenChat(c) ==
    /\ ViewsShown(c)
    /\ activeTab[c] = "home"
    /\ \E target \in VisibleUsers(c) \cup MyGroups(c) : openChat(c, target)

\* App.tsx:425  the target of the open two-party thread
ChatTarget(c) ==
    LET hits == {i \in 1..Len(users[c]) :
                    getChatId(currentUser[c].uid, users[c][i].uid) = activeChatId[c]}
    IN IF hits = {} THEN Null ELSE users[c][CHOOSE i \in hits : \A j \in hits : i <= j]

\* the mutant of Signalled: a slot that holds a signal keeps it
SignalledFirstWins(db, callee, callerId, type) ==
    IF callee \in DOMAIN db THEN db
    ELSE SetChild(db, callee, [callerId |-> callerId, type |-> type])

\* the mutant of Signalled: the signal names no type
SignalledUntyped(db, callee, callerId, type) ==
    SetChild(db, callee, [callerId |-> callerId, type |-> Null])

\* App.tsx:351-354  api.set(calls/<peer.uid>, {callerId, type})
Signalled(db, callee, callerId, type) ==
    SetChild(db, callee, [callerId |-> callerId, type |-> type])

\* App.tsx:369-370  the two removes of endCall
BothCleared(db, peer, own) == RemoveChild(RemoveChild(db, peer), own)

\* App.tsx:348-355  initiateCall, from the chat view (App.tsx:431, 721)
initiateCall(c, type) ==
    /\ UNCHANGED chatVars
    /\ ViewsShown(c)
    /\ activeTab[c] = "chat"
    /\ ~isGroupChat[c]
    /\ ChatTarget(c) # Null
    /\ LET peer == ChatTarget(c) IN
       /\ activeCall' = [activeCall EXCEPT ![c] = [peer |-> peer, type |-> type]]
       /\ dbCalls' = Signalled(dbCalls, PathKey(peer.uid), CurUid(c), type)
       /\ ev' = Event("initiateCall", c,
                      [uid |-> CurUid(c), peer |-> peer.uid, type |-> type,
                       before |-> dbCalls, after |-> dbCalls',
                       callAfter |-> activeCall'[c]])
    /\ UNCHANGED <<dbUsers, dbChats, dbGroups, dbRequests, dbTyping, dbOnDisconnect>>
    /\ EmitData(inbox)
    /\ EmitProfile(profInbox)
    /\ producedFor' = Tagged(c, "activeCall", CurUid(c))
    /\ UNCHANGED authVars
    /\ Fits
    /\ UNCHANGED <<loading, currentUser, navVars, dataVars, callLogs, incomingCall,
                   effectDep, subs, last, budget>>

\* App.tsx:357-364  answerCall, from the incoming-call prompt (App.tsx:464)
answerCall(c) ==
    /\ UNCHANGED chatVars
    /\ UiReady(c)
    /\ currentUser[c] # Null
    /\ incomingCall[c] # Null
    /\ activeCall' = [activeCall EXCEPT ![c] =
          [peer |-> incomingCall[c].from, type |-> incomingCall[c].type]]
    /\ incomingCall' = [incomingCall EXCEPT ![c] = Null]
    /\ dbCalls' = RemoveChild(dbCalls, PathKey(CurUid(c)))
    /\ UNCHANGED <<dbUsers, dbChats, dbGroups, dbRequests, dbTyping, dbOnDisconnect>>
    /\ EmitData(inbox)
    /\ EmitProfile(profInbox)
    /\ producedFor' = [producedFor EXCEPT ![c].activeCall = CurUid(c), ![c].incomingCall = Null]
    /\ ev' = Event("answerCall", c,
                   [uid |-> CurUid(c), prompt |-> incomingCall[c],
                    before |-> dbCalls, after |-> dbCalls',
                    callAfter |-> activeCall'[c], promptAfter |-> incomingCall'[c]])
    /\ last' = [last EXCEPT ![c].calls = NotSeen]
    /\ UNCHANGED authVars
    /\ Fits
    /\ UNCHANGED <<loading, currentUser, navVars, dataVars, callLogs, effectDep, subs,
                   budget>>

\* the mutant of LogAdded: the new record is placed last
LogAppended(logs, log) == logs \o <<log>>

\* App.tsx:379  [log, ...callLogs]
LogAdded(logs, log) == <<log>> \o logs

\* types.ts:80, App.tsx:372-378  CallLog (the random id and the timestamp are
\* left out)
CallLog(type, peerId) == [type |-> type, peerId |-> peerId, duration |-> 0]

\* App.tsx:366-386  endCall, from the call screen or as the decline of the
\* incoming-call prompt (App.tsx:463-464)
endCall(c) ==
    /\ UNCHANGED chatVars
    /\ UiReady(c)
    /\ currentUser[c] # Null
    /\ activeCall[c] # Null \/ incomingCall[c] # Null
    /\ IF activeCall[c] # Null
       THEN /\ budget.ends[c] < MaxCallLogs
            /\ budget' = [budget EXCEPT !.ends[c] = @ + 1]
            /\ dbCalls' = BothCleared(dbCalls, PathKey(activeCall[c].peer.uid),
                                      PathKey(CurUid(c)))
            /\ callLogs' = [callLogs EXCEPT ![c] =
                  LogAdded(@, CallLog(activeCall[c].type, activeCall[c].peer.uid))]
            /\ producedFor' = [producedFor EXCEPT
                  ![c].callLogs = <<CurUid(c)>> \o @,
                  ![c].activeCall = Null, ![c].incomingCall = Null]
       ELSE /\ dbCalls' = RemoveChild(dbCalls, PathKey(CurUid(c)))
            /\ UNCHANGED <<callLogs, budget>>
            /\ producedFor' = [producedFor EXCEPT
                  ![c].activeCall = Null, ![c].incomingCall = Null]
    /\ activeCall' = [activeCall EXCEPT ![c] = Null]
    /\ incomingCall' = [incomingCall EXCEPT ![c] = Null]
    /\ UNCHANGED <<dbUsers, dbChats, dbGroups, dbRequests, dbTyping, dbOnDisconnect>>
    /\ EmitData(inbox)
    /\ EmitProfile(profInbox)
    /\ ev' = Event("endCall", c,
                   [uid |-> CurUid(c), call |-> activeCall[c], prompt |-> incomingCall[c],
                    before |-> dbCalls, after |-> dbCalls',
                    callAfter |-> activeCall'[c], promptAfter |-> incomingCall'[c],
                    logsBefore |-> callLogs[c], logsAfter |-> callLogs'[c]])
    /\ last' = [last EXCEPT ![c].calls = NotSeen]
    /\ UNCHANGED authVars
    /\ Fits
    /\ UNCHANGED <<loading, currentUser, navVars, dataVars, effectDep, subs>>

----------------------------------------------------------------------------
(* The session specification: one App instance against the shared store.   *)

\* the App instances that run in the session specification; the store's
\* other writers are StoreChange
Running == {"c1"}

Init == InitStore /\ InitApp

StoreStep == \E k \in Colls : \E v \in ExtSnaps(k) : StoreChange(k, v)
RedeliverStep == \E c \in Running : \E k \in Colls : Redeliver(c, k)
AuthStep == \E c \in Running : onAuthState(c)
ProfileStep == \E c \in Running : \E uid \in Uids : profileListener(c, uid)
EffectStep == \E c \in Running : dataEffect(c)
LoginStep == \E c \in Running : \E uid \in Uids : handleLogin(c, uid)
LoginU1Step == \E c \in Running : handleLogin(c, U1)
LogoutStep == \E c \in Running : handleLogout(c)
UsersStep == \E c \in Running : usersListener(c)
ChatsStep == \E c \in Running : chatsListener(c)
GroupsStep == \E c \in Running : groupsListener(c)
RequestsStep == \E c \in Running : requestsListener(c)
CallsStep == \E c \in Running : callsListener(c)
TypingStep == \E c \in Running : typingListener(c)
TabStep == \E c \in Running : \E tab \in {"home", "requests", "calls", "profile"} : onTabChange(c, tab)
BackStep == \E c \in Running : onBack(c)
OpenChatStep == \E c \in Running : HomeOpenChat(c)
InitiateCallStep == \E c \in Running : \E type \in CallTypes : initiateCall(c, type)
AnswerCallStep == \E c \in Running : answerCall(c)
EndCallStep == \E c \in Running : endCall(c)

\* the session specification: sign-in, sign-out, the subscriptions of a
\* session, and the calls a session starts and ends
Next ==
    \/ AuthStep \/ ProfileStep \/ EffectStep \/ LoginStep \/ LogoutStep
    \/ UsersStep \/ CallsStep
    \/ TabStep \/ BackStep \/ OpenChatStep
    \/ InitiateCallStep \/ EndCallStep

Spec == Init /\ [][Next]_vars

\* the reconciliation specification: a session's data listeners against a
\* store that other writers change
NextSync ==
    \/ StoreStep \/ RedeliverStep
    \/ AuthStep \/ ProfileStep \/ EffectStep \/ LoginU1Step
    \/ UsersStep \/ ChatsStep \/ GroupsStep \/ RequestsStep \/ CallsStep \/ TypingStep

SpecSync == Init /\ [][NextSync]_vars

----------------------------------------------------------------------------
(* Thread addressing: openChat for every pair of identifiers of a pool.    *)

\* code units of the drawn identifiers: '1', '2', '_', 'u'
IdChars == {49, 50, Underscore, 117}
\* code units of the drawn group ids: generateId (helpers.ts:15) yields
\* base-36 digits only
GidChars == {49, 50, 117}

Strs(chars, n) == UNION {[1..k -> chars] : k \in 1..n}

\* "group"
GroupWord == <<103, 114, 111, 117, 112>>

\* the uids the identity provider may assign, and the ids of groups
IdPool == Strs(IdChars, MaxIdLen) \cup {GroupWord}
GidPool == Strs(GidChars, MaxIdLen)

\* the rows a home view may list: a UserProfile or a Group the user is in
IdTargets(me) ==
    {Profile(u, "offline") : u \in IdPool \ {me}}
        \cup {Group(g, <<me>>) : g \in GidPool}

\* an App whose session listener has delivered the profile of `me`
\* (App.tsx:57-66, 70)
InitIds ==
    \E me \in IdPool :
        /\ dbUsers = [u \in {me} |-> Profile(me, "online")]
        /\ dbChats = Null /\ dbGroups = Null /\ dbRequests = Null
        /\ dbCalls = Null /\ dbTyping = Null
        /\ dbOnDisconnect = {}
        /\ authUser = [c \in Clients |-> IF c = "c1" THEN me ELSE Null]
        /\ authQueue = [c \in Clients |-> IF c = "c1" THEN <<>> ELSE <<Null>>]
        /\ loading = [c \in Clients |-> c # "c1"]
        /\ currentUser = [c \in Clients |-> IF c = "c1" THEN Profile(me, "online") ELSE Null]
        /\ activeTab = [c \in Clients |-> "home"]
        /\ activeChatId = [c \in Clients |-> Null]
        /\ isGroupChat = [c \in Clients |-> FALSE]
        /\ users = [c \in Clients |-> <<>>]
        /\ onlineUsers = [c \in Clients |-> {}]
        /\ groups = [c \in Clients |-> <<>>]
        /\ chats = [c \in Clients |-> Null]
        /\ requests = [c \in Clients |-> <<>>]
        /\ typingState = [c \in Clients |-> Null]
        /\ callLogs = [c \in Clients |-> <<>>]
        /\ incomingCall = [c \in Clients |-> Null]
        /\ activeCall = [c \in Clients |-> Null]
        /\ profInbox = [c \in Clients |-> Null]
        /\ effectDep = [c \in Clients |-> Null]
        /\ subs = [c \in Clients |-> Null]
        /\ inbox = [c \in Clients |-> EmptyInbox]
        /\ ev = NoEvent
        /\ last = [c \in Clients |-> [k \in Colls |-> NotSeen]]
        /\ producedFor = [c \in Clients |->
              [users |-> Null, chats |-> Null, typingState |-> Null,
               callLogs |-> <<>>, activeCall |-> Null, incomingCall |-> Null]]
        /\ budget = [ext |-> 0, focus |-> "none", logins |-> 1,
                   ends |-> [c \in Clients |-> 0]]
        /\ typingTimeoutRef = [c \in Clients |-> Null]
        /\ inputText = [c \in Clients |-> FALSE]
        /\ pushClock = 0

OpenChatIdsStep == \E target \in IdTargets(CurUid("c1")) : openChat("c1", target)

NextIds == OpenChatIdsStep

SpecIds == InitIds /\ [][NextIds]_vars

----------------------------------------------------------------------------
(* Properties of thread addressing, checked under SpecIds.                 *)

\* the last step opened a two-party thread / a group thread on client "c1"
OpenedUser == ev.op = "openChat" /\ "memberIds" \notin DOMAIN ev.data
OpenedGroup == ev.op = "openChat" /\ "memberIds" \in DOMAIN ev.data
Me == currentUser["c1"].uid

RECURSIVE LexBefore(_, _)
\* s comes strictly before t, code unit by code unit
LexBefore(s, t) ==
    IF t = <<>> THEN FALSE
    ELSE IF s = <<>> THEN TRUE
    ELSE Head(s) < Head(t) \/ (Head(s) = Head(t) /\ LexBefore(Tail(s), Tail(t)))

\* C1: the thread id a user opens for a peer is the id the peer derives for
\* that user: getChatId with its two arguments exchanged gives the same id.
C1_Commutative ==
    OpenedUser => activeChatId["c1"] = getChatId(ev.data.uid, Me)

\* C1 witness: a thread was opened by the participant whose uid sorts second
C1_Witness ==
    /\ OpenedUser
    /\ LexBefore(ev.data.uid, Me)
    /\ activeChatId["c1"] = ev.data.uid \o <<Underscore>> \o Me

\* C2 as stated: no other unordered pair of identifiers yields the id of the
\* thread that was opened.
C2_CollisionFree ==
    OpenedUser =>
        \A a, b \in IdPool :
            {a, b} # {Me, ev.data.uid} => getChatId(a, b) # activeChatId["c1"]

\* C3: a two-party thread id is the two uids in lexicographic order with '_'
\* between them ("u1_u2" for u1 and u2, whoever opens it), and a group's
\* thread id is "group_" followed by the group id.
C3_ExactIds ==
    /\ OpenedUser =>
          /\ activeChatId["c1"] =
                IF LexBefore(ev.data.uid, Me)
                THEN ev.data.uid \o <<95>> \o Me
                ELSE Me \o <<95>> \o ev.data.uid
          /\ {Me, ev.data.uid} = {<<117, 49>>, <<117, 50>>}
                => activeChatId["c1"] = <<117, 49, 95, 117, 50>>
          /\ ~isGroupChat["c1"]
    /\ OpenedGroup =>
          /\ activeChatId["c1"] = <<103, 114, 111, 117, 112, 95>> \o ev.data.id
          /\ isGroupChat["c1"]

\* C3 witness: u2 has opened the thread with u1, and it is "u1_u2"
C3_Witness ==
    /\ OpenedUser
    /\ Me = <<117, 50>>
    /\ ev.data.uid = <<117, 49>>
    /\ activeChatId["c1"] = <<117, 49, 95, 117, 50>>

\* C4 as stated: the id of an opened group thread is the two-party thread id
\* of no pair of user identifiers.
C4_KindsDisjoint ==
    OpenedGroup => \A a, b \in IdPool : getChatId(a, b) # activeChatId["c1"]

----------------------------------------------------------------------------
(* Properties of reconciliation, checked under SpecSync.                   *)

\* the values of a snapshot object, as a set
Entries(data) == {data[key] : key \in DOMAIN data}

\* C5 as stated: once a listener has processed an absent snapshot, its local
\* container is empty: the users list and the online set, the chats map,
\* the groups list, the requests list, the typing map.
C5_AbsentResets ==
    \A c \in Running :
        /\ (last[c].users.seen /\ last[c].users.data = Null)
              => (users[c] = <<>> /\ onlineUsers[c] = {})
        /\ (last[c].chats.seen /\ last[c].chats.data = Null) => DOMAIN chats[c] = {}
        /\ (last[c].groups.seen /\ last[c].groups.data = Null) => groups[c] = <<>>
        /\ (last[c].requests.seen /\ last[c].requests.data = Null) => requests[c] = <<>>
        /\ (last[c].typing.seen /\ last[c].typing.data = Null) => DOMAIN typingState[c] = {}

\* C6 as stated: once a listener has processed a snapshot, its local
\* container holds exactly the entries of that snapshot.
C6_ExactlyTheSnapshot ==
    \A c \in Running :
        /\ last[c].users.seen =>
              /\ Range(users[c]) = Entries(last[c].users.data)
              /\ Len(users[c]) = Cardinality(DOMAIN last[c].users.data)
        /\ last[c].chats.seen =>
              /\ DOMAIN chats[c] = DOMAIN last[c].chats.data
              /\ \A key \in DOMAIN chats[c] :
                    Range(chats[c][key]) = Entries(last[c].chats.data[key])
        /\ last[c].groups.seen => Range(groups[c]) = Entries(last[c].groups.data)
        /\ last[c].requests.seen =>
              /\ Range(requests[c]) = Entries(last[c].requests.data)
              /\ Len(requests[c]) = Cardinality(DOMAIN last[c].requests.data)
        /\ last[c].typing.seen =>
              /\ DOMAIN typingState[c] = DOMAIN last[c].typing.data
              /\ \A chatId \in DOMAIN typingState[c] :
                    typingState[c][chatId] = DOMAIN last[c].typing.data[chatId]

\* the closures a calls listener may hold, and the prompts it may find
CallClosures ==
    {[uid |-> U1, users |-> us, activeCall |-> ac] :
        us \in {<<>>, <<Profile(U1, "online"), Profile(U2, "online")>>},
        ac \in {Null, [peer |-> Profile(U2, "online"), type |-> "video"]}}
CallPrompts == {Null, [from |-> Profile(U2, "offline"), type |-> "video"]}
CallSlots == {Null} \cup {[callerId |-> U2, type |-> t] : t \in CallTypes}

\* C7: a listener that processes the snapshot it processed just before leaves
\* its local container (users and online set, chats, groups, requests, typing
\* sets, the incoming-call prompt) as the first delivery left it; and the
\* prompt computed from a calls snapshot is the same when computed again
\* from the result.
C7_Idempotent ==
    /\ \A c \in Running :
          /\ last[c].users.dup => <<users[c], onlineUsers[c]>> = last[c].users.before
          /\ last[c].chats.dup => chats[c] = last[c].chats.before
          /\ last[c].groups.dup => groups[c] = last[c].groups.before
          /\ last[c].requests.dup => requests[c] = last[c].requests.before
          /\ last[c].typing.dup => typingState[c] = last[c].typing.before
          /\ last[c].calls.dup => incomingCall[c] = last[c].calls.before
    /\ \A data \in CallSlots, cl \in CallClosures, old \in CallPrompts :
          CallsOnValue(data, CallsOnValue(data, old, cl), cl) = CallsOnValue(data, old, cl)

\* C7 witness: the requests listener has processed the same non-empty
\* snapshot twice in a row
C7_Witness ==
    /\ last["c1"].requests.dup
    /\ last["c1"].requests.data # Null
    /\ requests["c1"] # <<>>

\* C10: the online set is the set of uids of the entries of the users list
\* whose status is online.
C10_OnlineDerived ==
    \A c \in Clients : onlineUsers[c] = OnlineOf(users[c])

\* C10 witness: a directory with an online and an offline entry was delivered
C10_Witness ==
    /\ last["c1"].users.seen
    /\ onlineUsers["c1"] # {}
    /\ Cardinality(onlineUsers["c1"]) < Len(users["c1"])

----------------------------------------------------------------------------
(* Properties of the session, checked under Spec.                          *)

\* the identities for which client c holds a subscription: its profile
\* listeners and the data listeners of its effect
SubscribedFor(c) ==
    (DOMAIN profInbox[c]) \cup (IF subs[c] = Null THEN {} ELSE {subs[c].uid})

\* C8 as stated: a client holds subscriptions for one identity at most, so
\* those of a departed identity are gone when the next identity subscribes;
\* and a profile notification that set the session's user and wrote to the
\* store was for the identity that is signed in.
C8_Revoked ==
    \A c \in Running :
        /\ Cardinality(SubscribedFor(c)) <= 1
        /\ (ev.op = "profileListener" /\ ev.c = c /\ ev.data.val # Null)
              => authUser[c] = ev.data.uid

\* the data effect of client c has run for the signed-in identity
Established(c) ==
    /\ currentUser[c] # Null
    /\ authUser[c] = CurUid(c)
    /\ subs[c] # Null
    /\ subs[c].uid = CurUid(c)

\* C9 as stated: in an established session, the call history, the active
\* call and the incoming-call prompt were produced in a session of the same
\* identity, and so were the directory, the threads and the typing sets once
\* the session's listener has processed its first snapshot.
C9_NoBleed ==
    \A c \in Running :
        Established(c) =>
            /\ \A i \in 1..Len(producedFor[c].callLogs) :
                  producedFor[c].callLogs[i] = CurUid(c)
            /\ activeCall[c] # Null => producedFor[c].activeCall = CurUid(c)
            /\ incomingCall[c] # Null => producedFor[c].incomingCall = CurUid(c)
            /\ (last[c].users.seen /\ users[c] # <<>>) => producedFor[c].users = CurUid(c)
            /\ (last[c].chats.seen /\ DOMAIN chats[c] # {})
                  => producedFor[c].chats = CurUid(c)
            /\ (last[c].typing.seen /\ DOMAIN typingState[c] # {})
                  => producedFor[c].typingState = CurUid(c)

----------------------------------------------------------------------------
(* The chat view: keystrokes, the typing timers, sending, clearing.        *)

\* api.update(typing/<chatId>, {[uid]: true})  (App.tsx:267)
TypingMark(db, chatId, uid) ==
    SetChild(db, chatId,
             SetChild(IF chatId \in DOMAIN db THEN db[chatId] ELSE Null, uid, TRUE))

\* api.remove(typing/<chatId>/<uid>)  (App.tsx:273, 296): a node left
\* without children does not exist
TypingUnmark(db, chatId, uid) ==
    IF chatId \notin DOMAIN db THEN db
    ELSE LET rest == RemoveChild(db[chatId], uid) IN
         IF DOMAIN rest = {} THEN RemoveChild(db, chatId) ELSE SetChild(db, chatId, rest)

\* the messages of a thread of a chats collection, by key
Thread(db, chatId) == IF chatId \in DOMAIN db THEN db[chatId] ELSE Null

\* the key api.push generates at clock value n: keys of later pushes sort later
PushKey(n) == <<109, 48 + n>>

\* groups.find(g => `group_${g.id}` === activeChatId)
FindGroup(groupList, chatId) ==
    LET hits == {i \in 1..Len(groupList) : groupChatId(groupList[i].id) = chatId} IN
    IF hits = {} THEN Null
    ELSE groupList[CHOOSE i \in hits : \A j \in hits : i <= j]

\* App.tsx:425  chatTarget, of either kind
ChatViewTarget(c) ==
    IF isGroupChat[c] THEN FindGroup(groups[c], activeChatId[c]) ELSE ChatTarget(c)

\* the ChatView is rendered and reachable (App.tsx:424-426)
ChatShown(c) == ViewsShown(c) /\ activeTab[c] = "chat" /\ ChatViewTarget(c) # Null

\* the mutant of IsPeerTyping: any marker counts
IsAnyoneTyping(c) ==
    \E uid \in (IF activeChatId[c] \in DOMAIN typingState[c]
                THEN typingState[c][activeChatId[c]] ELSE {}) : TRUE

\* App.tsx:427  isPeerTyping
IsPeerTyping(c) ==
    \E uid \in (IF activeChatId[c] \in DOMAIN typingState[c]
                THEN typingState[c][activeChatId[c]] ELSE {}) : uid # currentUser[c].uid

\* the mutant of TypingKept: the keystroke replaces the chat's markers
TypingReplaced(db, chatId, uid) == SetChild(db, chatId, SetChild(Null, uid, TRUE))

\* App.tsx:267  the store write of handleLocalTyping
TypingKept(db, chatId, uid) == TypingMark(db, chatId, uid)

\* App.tsx:269, 294  clearTimeout of the timer a slot refers to: live counts
\* the armed timers made for the slot's chat, pending says that the one the
\* slot refers to is among them
TimerCancelled(slot) ==
    [slot EXCEPT !.pending = FALSE, !.live = IF slot.pending THEN @ - 1 ELSE @]

\* the mutant of Rearmed: the timer the slot refers to is left armed
RearmedUncancelled(ref, chatId, uid) ==
    LET live == IF chatId \in DOMAIN ref THEN ref[chatId].live ELSE 0 IN
    SetChild(ref, chatId, [uid |-> uid, pending |-> TRUE, live |-> live + 1])

\* App.tsx:269-274  the timer of the chat's slot is cancelled, a new one is
\* armed and the slot refers to it
Rearmed(ref, chatId, uid) ==
    LET live == IF chatId \in DOMAIN ref THEN TimerCancelled(ref[chatId]).live ELSE 0 IN
    SetChild(ref, chatId, [uid |-> uid, pending |-> TRUE, live |-> live + 1])

\* App.tsx:744, 430, 263-275  onChange of the input: setInputText, then
\* handleLocalTyping(activeChatId); nonblank says whether the new text has a
\* character that trim() keeps
handleLocalTyping(c, nonblank) ==
    /\ ChatShown(c)
    /\ inputText' = [inputText EXCEPT ![c] = nonblank]
    /\ LET chatId == activeChatId[c]
           uid == currentUser[c].uid
       IN
       /\ dbTyping' = TypingKept(dbTyping, chatId, PathKey(uid))
       /\ typingTimeoutRef' = [typingTimeoutRef EXCEPT ![c] = Rearmed(@, chatId, uid)]
       /\ ev' = Event("handleLocalTyping", c,
                      [chatId |-> chatId, uid |-> uid,
                       before |-> dbTyping, after |-> dbTyping',
                       timersBefore |-> typingTimeoutRef[c]])
    /\ UNCHANGED <<dbUsers, dbChats, dbGroups, dbRequests, dbCalls, dbOnDisconnect>>
    /\ EmitData(inbox)
    /\ EmitProfile(profInbox)
    /\ UNCHANGED authVars
    /\ Fits
    /\ UNCHANGED <<loading, currentUser, navVars, dataVars, callVars, effectDep, subs,
                   last, producedFor, budget, pushClock>>

\* App.tsx:271-274  the callback of the timer of a slot fires, which leaves
\* the timer no longer armed
typingTimeout(c, chatId) ==
    /\ chatId \in DOMAIN typingTimeoutRef[c]
    /\ typingTimeoutRef[c][chatId].pending
    /\ typingTimeoutRef' = [typingTimeoutRef EXCEPT ![c][chatId] = TimerCancelled(@)]
    /\ dbTyping' = TypingUnmark(dbTyping, chatId, PathKey(typingTimeoutRef[c][chatId].uid))
    /\ ev' = Event("typingTimeout", c,
                   [chatId |-> chatId, uid |-> typingTimeoutRef[c][chatId].uid])
    /\ UNCHANGED <<dbUsers, dbChats, dbGroups, dbRequests, dbCalls, dbOnDisconnect>>
    /\ EmitData(inbox)
    /\ EmitProfile(profInbox)
    /\ UNCHANGED authVars
    /\ Fits
    /\ UNCHANGED <<loading, currentUser, navVars, dataVars, callVars, effectDep, subs,
                   last, producedFor, budget, inputText, pushClock>>

\* the readings of Date.now(): the peer's clock may be behind the local
\* one, whose reading does not advance within a run, so timestamps repeat
\* and go back while keys grow
Timestamps == 0..MaxTime
LocalNow == MaxTime

\* the mutant of SentMessage: the sender is not stamped
SentMessageUnstamped(key, uid, ts) ==
    [id |-> key, senderId |-> Null, status |-> "sent", timestamp |-> ts]

\* App.tsx:282-289  newMessage (name and text are left out)
SentMessage(key, uid, ts) ==
    [id |-> key, senderId |-> uid, status |-> "sent", timestamp |-> ts]

\* the mutant of BroadcastMessage: the status of a sent message
BroadcastMessageUnread(uid, ts) ==
    [senderId |-> uid, senderName |-> "SYSTEM", status |-> "sent", timestamp |-> ts,
     isBroadcast |-> TRUE]

\* App.tsx:308-315  broadcastMsg (the text is left out)
BroadcastMessage(uid, ts) ==
    [senderId |-> uid, senderName |-> "SYSTEM", status |-> "read", timestamp |-> ts,
     isBroadcast |-> TRUE]

\* api.set(newMessageRef, msg) / api.push(ref, msg): one child added to a thread
Appended(db, chatId, key, msg) == SetChild(db, chatId, SetChild(Thread(db, chatId), key, msg))

\* the mutant of SendUnmark: the marker stays until the timer
SendUnmarkSkipped(db, chatId, uid) == db

\* App.tsx:296  the removal of the sender's typing marker
SendUnmark(db, chatId, uid) == TypingUnmark(db, chatId, uid)

\* App.tsx:742, 278-298  onSubmit of the form: sendMessage(inputText), then
\* setInputText('')
sendMessage(c) ==
    /\ ChatShown(c)
    /\ inputText' = [inputText EXCEPT ![c] = FALSE]
    /\ LET chatId == activeChatId[c]
           uid == currentUser[c].uid
       IN
       IF ~inputText[c] \/ chatId = Null
       THEN /\ UNCHANGED <<dbChats, dbTyping, typingTimeoutRef, pushClock>>
            /\ ev' = NoEvent
       ELSE /\ pushClock < MaxPushes
            /\ pushClock' = pushClock + 1
            /\ dbChats' = Appended(dbChats, chatId, PushKey(pushClock'),
                                   SentMessage(PushKey(pushClock'), uid, LocalNow))
            /\ IF chatId \in DOMAIN typingTimeoutRef[c]
               THEN /\ typingTimeoutRef' =
                          [typingTimeoutRef EXCEPT ![c][chatId] = TimerCancelled(@)]
                    /\ dbTyping' = SendUnmark(dbTyping, chatId, PathKey(uid))
               ELSE UNCHANGED <<typingTimeoutRef, dbTyping>>
            /\ ev' = Event("sendMessage", c,
                           [chatId |-> chatId, uid |-> uid, key |-> PushKey(pushClock'),
                            before |-> dbChats, after |-> dbChats',
                            typingBefore |-> dbTyping, typingAfter |-> dbTyping',
                            timersAfter |-> typingTimeoutRef'[c]])
    /\ UNCHANGED <<dbUsers, dbGroups, dbRequests, dbCalls, dbOnDisconnect>>
    /\ EmitData(inbox)
    /\ EmitProfile(profInbox)
    /\ UNCHANGED authVars
    /\ Fits
    /\ UNCHANGED <<loading, currentUser, navVars, dataVars, callVars, effectDep, subs,
                   last, producedFor, budget>>

\* the mutant of ClearThread: the whole collection is removed
ClearAllThreads(db, chatId) == Null

\* App.tsx:303  api.remove(chats/<activeChatId>)
ClearThread(db, chatId) == RemoveChild(db, chatId)

\* App.tsx:300-305, 722  handleClearChat; confirmed is the answer to confirm()
handleClearChat(c, confirmed) ==
    /\ ChatShown(c)
    /\ IF activeChatId[c] # Null /\ confirmed
       THEN dbChats' = ClearThread(dbChats, activeChatId[c])
       ELSE UNCHANGED dbChats
    /\ ev' = Event("handleClearChat", c,
                   [chatId |-> activeChatId[c], confirmed |-> confirmed,
                    before |-> dbChats, after |-> dbChats'])
    /\ UNCHANGED <<dbUsers, dbGroups, dbRequests, dbCalls, dbTyping, dbOnDisconnect>>
    /\ EmitData(inbox)
    /\ EmitProfile(profInbox)
    /\ UNCHANGED authVars
    /\ Fits
    /\ UNCHANGED <<loading, currentUser, navVars, dataVars, callVars, effectDep, subs,
                   last, producedFor, budget, chatVars>>

----------------------------------------------------------------------------
(* The chat specification: a session of u1 with the thread of u1 and u2    *)
(* and one group thread, against a peer that runs the same handlers as u2. *)

ThreadG1 == groupChatId(KeyG1)
PeerChats == {ThreadU1U2, ThreadG1}

\* handleLocalTyping run by the peer's App (App.tsx:267)
peerKeystroke(uid, chatId) ==
    /\ dbTyping' = TypingKept(dbTyping, chatId, PathKey(uid))
    /\ dbTyping' # dbTyping
    /\ ev' = NoEvent
    /\ UNCHANGED <<dbUsers, dbChats, dbGroups, dbRequests, dbCalls, dbOnDisconnect>>
    /\ EmitData(inbox)
    /\ EmitProfile(profInbox)
    /\ UNCHANGED authVars
    /\ Fits
    /\ UNCHANGED <<loading, currentUser, navVars, dataVars, callVars, effectDep, subs,
                   last, producedFor, budget, chatVars>>

\* the timer of the peer's App fires (App.tsx:273)
peerTimeout(uid, chatId) ==
    /\ dbTyping' = TypingUnmark(dbTyping, chatId, PathKey(uid))
    /\ dbTyping' # dbTyping
    /\ ev' = NoEvent
    /\ UNCHANGED <<dbUsers, dbChats, dbGroups, dbRequests, dbCalls, dbOnDisconnect>>
    /\ EmitData(inbox)
    /\ EmitProfile(profInbox)
    /\ UNCHANGED authVars
    /\ Fits
    /\ UNCHANGED <<loading, currentUser, navVars, dataVars, callVars, effectDep, subs,
                   last, producedFor, budget, chatVars>>

\* sendMessage (App.tsx:280-291) or handleBroadcast (App.tsx:307-322) run by
\* the peer's App: one message pushed to a thread
peerPush(uid, chatId, broadcast) ==
    /\ pushClock < MaxPushes
    /\ pushClock' = pushClock + 1
    /\ \E ts \in Timestamps :
          dbChats' = Appended(dbChats, chatId, PushKey(pushClock'),
                              IF broadcast THEN BroadcastMessage(uid, ts)
                              ELSE SentMessage(PushKey(pushClock'), uid, ts))
    /\ ev' = NoEvent
    /\ UNCHANGED <<dbUsers, dbGroups, dbRequests, dbCalls, dbTyping, dbOnDisconnect>>
    /\ EmitData(inbox)
    /\ EmitProfile(profInbox)
    /\ UNCHANGED authVars
    /\ Fits
    /\ UNCHANGED <<loading, currentUser, navVars, dataVars, callVars, effectDep, subs,
                   last, producedFor, budget, typingTimeoutRef, inputText>>

\* u1 is signed in on client "c1", its listeners have delivered the
\* directory and the one group, and nothing waits (a state of SpecSync)
InitChat ==
    /\ dbUsers = [u \in Uids |-> Profile(u, IF u = U1 THEN "online" ELSE "offline")]
    /\ dbChats = Null
    /\ dbGroups = OneChild(KeyG1, Group(KeyG1, <<U1, U2>>))
    /\ dbRequests = Null
    /\ dbCalls = Null
    /\ dbTyping = Null
    /\ dbOnDisconnect = {U1}
    /\ authUser = [c \in Clients |-> IF c = "c1" THEN U1 ELSE Null]
    /\ authQueue = [c \in Clients |-> IF c = "c1" THEN <<>> ELSE <<Null>>]
    /\ loading = [c \in Clients |-> c # "c1"]
    /\ currentUser = [c \in Clients |-> IF c = "c1" THEN Profile(U1, "online") ELSE Null]
    /\ activeTab = [c \in Clients |-> "home"]
    /\ activeChatId = [c \in Clients |-> Null]
    /\ isGroupChat = [c \in Clients |-> FALSE]
    /\ users = [c \in Clients |-> IF c = "c1" THEN ObjectValues(dbUsers) ELSE <<>>]
    /\ onlineUsers = [c \in Clients |-> IF c = "c1" THEN {U1} ELSE {}]
    /\ groups = [c \in Clients |-> IF c = "c1" THEN ObjectValues(dbGroups) ELSE <<>>]
    /\ chats = [c \in Clients |-> Null]
    /\ requests = [c \in Clients |-> <<>>]
    /\ typingState = [c \in Clients |-> Null]
    /\ callLogs = [c \in Clients |-> <<>>]
    /\ incomingCall = [c \in Clients |-> Null]
    /\ activeCall = [c \in Clients |-> Null]
    /\ profInbox = [c \in Clients |-> IF c = "c1" THEN OneChild(U1, <<>>) ELSE Null]
    /\ effectDep = [c \in Clients |-> IF c = "c1" THEN U1 ELSE Null]
    /\ subs = [c \in Clients |->
          IF c = "c1" THEN [uid |-> U1, users |-> <<>>, activeCall |-> Null] ELSE Null]
    /\ inbox = [c \in Clients |-> EmptyInbox]
    /\ ev = NoEvent
    /\ last = [c \in Clients |-> [k \in Colls |->
          IF c = "c1"
          THEN [seen |-> TRUE, data |-> View(Db, k, U1), dup |-> FALSE, before |-> Null]
          ELSE NotSeen]]
    /\ producedFor = [c \in Clients |->
          [users |-> IF c = "c1" THEN U1 ELSE Null,
           chats |-> IF c = "c1" THEN U1 ELSE Null,
           typingState |-> IF c = "c1" THEN U1 ELSE Null,
           callLogs |-> <<>>, activeCall |-> Null, incomingCall |-> Null]]
    /\ budget = [ext |-> 1, focus |-> "groups", logins |-> 1,
                   ends |-> [c \in Clients |-> 0]]
    /\ typingTimeoutRef = [c \in Clients |-> Null]
    /\ inputText = [c \in Clients |-> FALSE]
    /\ pushClock = 0

TypeStep == \E c \in Running : \E nonblank \in BOOLEAN : handleLocalTyping(c, nonblank)
TimeoutStep == \E c \in Running : \E chatId \in DOMAIN typingTimeoutRef[c] : typingTimeout(c, chatId)
SendStep == \E c \in Running : sendMessage(c)
ClearStep == \E c \in Running : \E confirmed \in BOOLEAN : handleClearChat(c, confirmed)
PeerTypeStep == \E chatId \in PeerChats : peerKeystroke(U2, chatId)
PeerTimeoutStep == \E chatId \in PeerChats : peerTimeout(U2, chatId)
\* the peer sends to the group and broadcasts to u1
PeerPushStep == \E chatId \in PeerChats : peerPush(U2, chatId, chatId = ThreadU1U2)

\* the typing specification: keystrokes, timers and sends of u1, the
\* markers of the peer, and the typing listener
NextTyping ==
    \/ OpenChatStep \/ BackStep
    \/ TypeStep \/ TimeoutStep \/ SendStep
    \/ PeerTypeStep \/ PeerTimeoutStep
    \/ TypingStep

SpecTyping == InitChat /\ [][NextTyping]_vars

\* the thread specification: u1 opens a thread and writes, sends and clears
\* there, the peer pushes, and the chats listener reconciles
NextThread ==
    \/ OpenChatStep
    \/ TypeStep \/ SendStep \/ ClearStep
    \/ PeerPushStep
    \/ ChatsStep \/ TypingStep

SpecThread == InitChat /\ [][NextThread]_vars

----------------------------------------------------------------------------
(* Properties of presence, checked under Spec (only client "c1" writes     *)
(* statuses there).                                                        *)

\* C11 as stated: a status that a session start has set to online has a
\* disconnect-safe write of offline registered for it.
C11_OnlineIsGuarded ==
    \A u \in DOMAIN dbUsers : dbUsers[u].status = "online" => u \in dbOnDisconnect

\* C12 as stated: while nobody is signed in on the client, that is from its
\* logout until its next sign-in, every status in the store is offline.
C12_OfflineAfterLogout ==
    \A c \in Running :
        authUser[c] = Null => \A u \in DOMAIN dbUsers : dbUsers[u].status = "offline"

----------------------------------------------------------------------------
(* Properties of typing markers.                                           *)

\* the markers of a chat in a value of the typing collection
MarkersIn(db, chatId) == IF chatId \in DOMAIN db THEN DOMAIN db[chatId] ELSE {}

\* C13: a keystroke leaves in the chat's typing set the markers it held and
\* the local uid (so a repeated keystroke changes nothing), and leaves the
\* typing sets of the other chats as they were.
C13_KeystrokeIdempotent ==
    ev.op = "handleLocalTyping" =>
        LET d == ev.data IN
        /\ MarkersIn(d.after, d.chatId) = MarkersIn(d.before, d.chatId) \cup {d.uid}
        /\ d.uid \in MarkersIn(d.before, d.chatId) => d.after = d.before
        /\ \A x \in (DOMAIN d.before \cup DOMAIN d.after) \ {d.chatId} :
              /\ x \in DOMAIN d.before
              /\ x \in DOMAIN d.after
              /\ d.after[x] = d.before[x]

\* C13 witness: a keystroke was repeated in a chat in which the peer is
\* marked as well
C13_Witness ==
    /\ ev.op = "handleLocalTyping"
    /\ {ev.data.uid, U2} \subseteq MarkersIn(ev.data.before, ev.data.chatId)
    /\ ev.data.uid # U2

\* C15: a send leaves no marker of the sender in the chat, leaves the other
\* markers of the typing collection as they were, and leaves no timer of
\* that chat to fire.
C15_SendStopsTyping ==
    ev.op = "sendMessage" =>
        LET d == ev.data IN
        /\ d.uid \notin MarkersIn(d.typingAfter, d.chatId)
        /\ MarkersIn(d.typingAfter, d.chatId) = MarkersIn(d.typingBefore, d.chatId) \ {d.uid}
        /\ \A x \in (DOMAIN d.typingBefore) \ {d.chatId} :
              x \in DOMAIN d.typingAfter /\ d.typingAfter[x] = d.typingBefore[x]
        /\ d.chatId \in DOMAIN d.timersAfter => ~d.timersAfter[d.chatId].pending

\* C15 witness: a message was sent while the sender and the peer were
\* marked in the chat
C15_Witness ==
    /\ ev.op = "sendMessage"
    /\ {ev.data.uid, U2} \subseteq MarkersIn(ev.data.typingBefore, ev.data.chatId)
    /\ ev.data.uid # U2
    /\ MarkersIn(ev.data.typingAfter, ev.data.chatId) = {U2}

\* the switch specification: sign-in, sign-out and sign-in again on one App
\* instance, with keystrokes and their timers; only client "c1" writes
\* typing markers there
ProfileTabStep == \E c \in Running : onTabChange(c, "profile")

NextSwitch ==
    \/ AuthStep \/ ProfileStep \/ EffectStep \/ LoginStep \/ LogoutStep
    \/ UsersStep \/ TypingStep
    \/ ProfileTabStep \/ BackStep \/ OpenChatStep
    \/ TypeStep \/ TimeoutStep

SpecSwitch == Init /\ [][NextSwitch]_vars

\* C14 as stated: every marker in the store has the timer that will remove
\* it armed on the client that wrote it, so that the marker is cleared once
\* the timer fires.
C14_ClearPending ==
    \A chatId \in DOMAIN dbTyping : \A uid \in DOMAIN dbTyping[chatId] :
        \E c \in Running :
            /\ chatId \in DOMAIN typingTimeoutRef[c]
            /\ typingTimeoutRef[c][chatId].pending
            /\ PathKey(typingTimeoutRef[c][chatId].uid) = uid


----------------------------------------------------------------------------
(* The peer-is-typing signal, checked under SpecTyping.                    *)

\* the local typing set of the active chat of client c; an absent set is empty
ActiveTypingSet(c) ==
    IF activeChatId[c] \in DOMAIN typingState[c]
    THEN typingState[c][activeChatId[c]] ELSE {}

\* C16: while the chat view is shown, the peer-is-typing signal is true
\* exactly when the local typing set of the active chat holds a uid other
\* than the local one; an empty or absent set, or the local uid alone,
\* gives false.
C16_PeerSignal ==
    \A c \in Running :
        ChatShown(c) =>
            /\ IsPeerTyping(c) <=> (ActiveTypingSet(c) \ {CurUid(c)} # {})
            /\ ActiveTypingSet(c) \subseteq {CurUid(c)} => ~IsPeerTyping(c)

\* C16 witness: the chat view is shown while the local typing set of the
\* active chat holds the local uid and nothing else
C16_Witness ==
    \E c \in Running :
        /\ ChatShown(c)
        /\ ActiveTypingSet(c) = {CurUid(c)}
        /\ ~IsPeerTyping(c)

\* a state in which the signal is shown as true: the peer is in the local set
C16_PeerSeen ==
    \E c \in Running :
        /\ ChatShown(c)
        /\ U2 \in ActiveTypingSet(c)
        /\ CurUid(c) = U1
        /\ IsPeerTyping(c)


----------------------------------------------------------------------------
(* Properties of threads, checked under SpecThread.                        *)

\* C17: a send adds one message to the active thread, under a key that no
\* message of the thread had, with the sender's uid and status sent; the
\* messages the thread had and all the other threads are as they were.
C17_AppendsOne ==
    ev.op = "sendMessage" =>
        LET d == ev.data
            tb == Thread(d.before, d.chatId)
            ta == Thread(d.after, d.chatId)
        IN
        /\ d.key \notin DOMAIN tb
        /\ DOMAIN ta = DOMAIN tb \cup {d.key}
        /\ \A k \in DOMAIN tb : ta[k] = tb[k]
        /\ ta[d.key].senderId = d.uid
        /\ ta[d.key].status = "sent"
        /\ \A x \in (DOMAIN d.before \cup DOMAIN d.after) \ {d.chatId} :
              /\ x \in DOMAIN d.before
              /\ x \in DOMAIN d.after
              /\ d.after[x] = d.before[x]

\* C17 witness: a message was sent to a thread that held a message already
C17_Witness ==
    /\ ev.op = "sendMessage"
    /\ ev.data.uid = U1
    /\ DOMAIN Thread(ev.data.before, ev.data.chatId) # {}
    /\ Cardinality(DOMAIN Thread(ev.data.after, ev.data.chatId)) = 2

\* a message was sent while another thread held a message
C17_OtherThread ==
    /\ ev.op = "sendMessage"
    /\ DOMAIN ev.data.before \ {ev.data.chatId} # {}


\* the n for which PushKey(n) is a key of thread value data, in write order
WrittenIn(data) == {n \in 1..pushClock : PushKey(n) \in DOMAIN data}

\* the i-th written key of thread value data
NthWritten(data, i) ==
    PushKey(CHOOSE n \in WrittenIn(data) :
                Cardinality({m \in WrittenIn(data) : m < n}) = i - 1)

\* C18: each local thread lists the messages of the snapshot it was built
\* from in the order in which their keys were written, whatever their
\* timestamps are.
C18_WriteOrder ==
    \A c \in Running : \A t \in DOMAIN chats[c] :
        LET data == last[c].chats.data[t]
            list == chats[c][t]
        IN
        /\ DOMAIN data = {PushKey(n) : n \in WrittenIn(data)}
        /\ Len(list) = Cardinality(WrittenIn(data))
        /\ \A i \in 1..Len(list) : list[i] = data[NthWritten(data, i)]
        /\ \A m, n \in WrittenIn(data) : m < n <=> LexBefore(PushKey(m), PushKey(n))

\* C18 witness: a local thread lists a message before a broadcast message
\* that was appended later with a smaller timestamp
C18_Witness ==
    \E c \in Running : \E t \in DOMAIN chats[c] :
        /\ Len(chats[c][t]) = 2
        /\ chats[c][t][1].timestamp > chats[c][t][2].timestamp
        /\ "isBroadcast" \in DOMAIN chats[c][t][2]
        /\ chats[c][t][1].senderId = U1

\* a local thread lists two messages with equal timestamps
C18_EqualStamps ==
    \E c \in Running : \E t \in DOMAIN chats[c] :
        /\ Len(chats[c][t]) = 2
        /\ chats[c][t][1].timestamp = chats[c][t][2].timestamp
        /\ chats[c][t][1].senderId # chats[c][t][2].senderId


\* C19: a confirmed clear removes the active thread from the store and
\* leaves the other threads as they were; a clear that is not confirmed
\* leaves the store as it was; once the snapshot of a confirmed clear has
\* been delivered, the local view has no message of the thread.
C19_ClearsOneThread ==
    ev.op = "handleClearChat" =>
        LET d == ev.data IN
        /\ d.confirmed =>
              /\ d.chatId \notin DOMAIN d.after
              /\ \A x \in DOMAIN d.before \ {d.chatId} :
                    x \in DOMAIN d.after /\ d.after[x] = d.before[x]
              /\ DOMAIN d.after \subseteq DOMAIN d.before
              /\ inbox[ev.c].chats = <<>> => d.chatId \notin DOMAIN chats[ev.c]
        /\ ~d.confirmed => d.after = d.before

\* C19 witness: a thread with a message was cleared while the other thread
\* held a message, and the snapshot of the clear has been delivered
C19_Witness ==
    /\ ev.op = "handleClearChat"
    /\ ev.data.confirmed
    /\ ev.data.chatId \in DOMAIN ev.data.before
    /\ DOMAIN ev.data.before \ {ev.data.chatId} # {}
    /\ inbox[ev.c].chats = <<>>
    /\ DOMAIN chats[ev.c] = DOMAIN ev.data.before \ {ev.data.chatId}

\* a clear was declined while the thread held a message
C19_Declined ==
    /\ ev.op = "handleClearChat"
    /\ ~ev.data.confirmed
    /\ ev.data.chatId \in DOMAIN ev.data.before

\* the last thread of the store was cleared and the empty snapshot delivered
C19_LastThread ==
    /\ ev.op = "handleClearChat"
    /\ ev.data.confirmed
    /\ DOMAIN ev.data.before = {ev.data.chatId}
    /\ inbox[ev.c].chats = <<>>
    /\ last[ev.c].chats.data = Null


----------------------------------------------------------------------------
(* Friend requests: the handlers of the requests view, run by client "c1"  *)
(* and by other sessions, and the request specification.                   *)

\* the mutant of PendingRequests: every pending request has the buttons
PendingRequestsAny(c) ==
    {requests[c][i] : i \in {j \in 1..Len(requests[c]) :
        Field(requests[c][j], "status") = "pending"}}

\* App.tsx:911  pendingRequests: the requests whose buttons the view shows
PendingRequests(c) ==
    {requests[c][i] : i \in {j \in 1..Len(requests[c]) :
        /\ Field(requests[c][j], "to") = currentUser[c].uid
        /\ Field(requests[c][j], "status") = "pending"}}

\* App.tsx:415-416  the requests view is rendered
RequestsShown(c) == ViewsShown(c) /\ activeTab[c] = "requests"

\* App.tsx:421  api.update(requests/<id>, {status: 'accepted'}): the status
\* is merged into the node, which is created if it does not exist
AcceptUpdate(db, id) ==
    LET old == IF id \in DOMAIN db THEN db[id] ELSE Null IN
    SetChild(db, id, [f \in (DOMAIN old) \cup {"status"} |->
                         IF f = "status" THEN "accepted" ELSE old[f]])

\* App.tsx:421  api.remove(requests/<id>)
DeclineRemove(db, id) == RemoveChild(db, id)

\* the handlers of the requests view act on the list of the last render:
\* their notification may wait behind one they have not processed
FitsBehind ==
    \A c \in Clients :
        /\ \A k \in Colls : Len(inbox'[c][k]) <= MaxInbox + 1
        /\ \A u \in DOMAIN profInbox'[c] : Len(profInbox'[c][u]) <= MaxInbox
        /\ Len(authQueue'[c]) <= MaxInbox

\* what a write to the requests collection leaves alone
RequestWriteFrame ==
    /\ UNCHANGED <<dbUsers, dbChats, dbGroups, dbCalls, dbTyping, dbOnDisconnect>>
    /\ EmitData(inbox)
    /\ EmitProfile(profInbox)
    /\ UNCHANGED authVars
    /\ UNCHANGED <<loading, currentUser, navVars, dataVars, callVars, effectDep, subs,
                   last, producedFor, chatVars>>

\* App.tsx:421, 912  onAcceptRequest(req.id), the Accept button of a request
\* the view lists as pending
acceptRequest(c, id) ==
    /\ RequestsShown(c)
    /\ \E r \in PendingRequests(c) : Field(r, "id") = id
    /\ dbRequests' = AcceptUpdate(dbRequests, id)
    /\ ev' = Event("acceptRequest", c, [id |-> id, before |-> dbRequests, after |-> dbRequests'])
    /\ RequestWriteFrame
    /\ FitsBehind
    /\ UNCHANGED budget

\* App.tsx:421, 912  onDeclineRequest(req.id), the Decline button
declineRequest(c, id) ==
    /\ RequestsShown(c)
    /\ \E r \in PendingRequests(c) : Field(r, "id") = id
    /\ dbRequests' = DeclineRemove(dbRequests, id)
    /\ ev' = Event("declineRequest", c, [id |-> id, before |-> dbRequests, after |-> dbRequests'])
    /\ RequestWriteFrame
    /\ FitsBehind
    /\ UNCHANGED budget

\* the mutant of NewRequest: nothing is written if the store holds a request
\* of the same sender to the same addressee
NewRequestOnce(db, id, from, to) ==
    IF \E k \in DOMAIN db : Field(db[k], "from") = from /\ Field(db[k], "to") = to
    THEN db
    ELSE SetChild(db, id, FriendRequest(id, from, to, "pending"))

\* App.tsx:419-420  api.set(requests/<reqId>, newReq)
NewRequest(db, id, from, to) == SetChild(db, id, FriendRequest(id, from, to, "pending"))

\* App.tsx:416-420, 912  onSendRequest(u.uid), the Add button of a search
\* result; id is the value of generateId(), taken to be an unused id
sendRequest(c, to, id) ==
    /\ RequestsShown(c)
    /\ \E i \in 1..Len(users[c]) : users[c][i].uid = to /\ to # currentUser[c].uid
    /\ id \notin DOMAIN dbRequests
    /\ dbRequests' = NewRequest(dbRequests, id, currentUser[c].uid, to)
    /\ ev' = Event("sendRequest", c, [id |-> id, from |-> currentUser[c].uid, to |-> to,
                                      before |-> dbRequests, after |-> dbRequests'])
    /\ RequestWriteFrame
    /\ Fits
    /\ UNCHANGED budget

\* App.tsx:416-420  onSendRequest run by the peer's App
peerSendRequest(from, to, id) ==
    /\ budget.ext < MaxExtEvents
    /\ budget' = [budget EXCEPT !.ext = @ + 1]
    /\ id \notin DOMAIN dbRequests
    /\ dbRequests' = NewRequest(dbRequests, id, from, to)
    /\ ev' = NoEvent
    /\ RequestWriteFrame
    /\ Fits

\* onAcceptRequest run by another session of the addressee, whose list is
\* up to date
peerAccept(uid, id) ==
    /\ id \in DOMAIN dbRequests
    /\ Field(dbRequests[id], "to") = uid
    /\ Field(dbRequests[id], "status") = "pending"
    /\ dbRequests' = AcceptUpdate(dbRequests, id)
    /\ ev' = NoEvent
    /\ RequestWriteFrame
    /\ Fits
    /\ UNCHANGED budget

\* onDeclineRequest run by another session of the addressee, whose list is
\* up to date
peerDecline(uid, id) ==
    /\ id \in DOMAIN dbRequests
    /\ Field(dbRequests[id], "to") = uid
    /\ Field(dbRequests[id], "status") = "pending"
    /\ dbRequests' = DeclineRemove(dbRequests, id)
    /\ ev' = NoEvent
    /\ RequestWriteFrame
    /\ Fits
    /\ UNCHANGED budget

\* App.tsx:418  ids made by generateId
KeyR2 == <<114, 50>>
KeyR3 == <<114, 51>>
ReqKeys == {KeyR1, KeyR2, KeyR3}

AcceptStep == \E c \in Running : \E id \in ReqKeys : acceptRequest(c, id)
DeclineStep == \E c \in Running : \E id \in ReqKeys : declineRequest(c, id)
\* an id, once made, is not made again by another session: the peer's
\* requests take KeyR1, those of client "c1" the other ids
PeerSendStep == peerSendRequest(U2, U1, KeyR1)
PeerAcceptStep == \E uid \in Uids : \E id \in ReqKeys : peerAccept(uid, id)
PeerDeclineStep == \E uid \in Uids : \E id \in ReqKeys : peerDecline(uid, id)
SendRequestStep ==
    \E c \in Running : \E to \in Uids : \E id \in ReqKeys \ {KeyR1} : sendRequest(c, to, id)

\* the request specification: the session of u1 of InitChat, a peer that
\* sends requests to u1, and a second session of u1
ReqTabStep == \E c \in Running : \E tab \in {"home", "requests", "calls"} : onTabChange(c, tab)

NextReq ==
    \/ ReqTabStep \/ OpenChatStep \/ BackStep
    \/ RequestsStep
    \/ SendRequestStep \/ AcceptStep \/ DeclineStep
    \/ PeerSendStep \/ PeerAcceptStep \/ PeerDeclineStep

SpecReq == InitChat /\ [][NextReq]_vars

\* C20 as stated: an accept or a decline changes the store only if the
\* request is pending in the store; on a request that is accepted, or that
\* a decline has removed, it changes and removes nothing.
C20_OnlyFromPending ==
    ev.op \in {"acceptRequest", "declineRequest"} =>
        LET d == ev.data IN
        \/ d.id \in DOMAIN d.before /\ Field(d.before[d.id], "status") = "pending"
        \/ d.after = d.before


\* C21 as stated: a decline of a pending request leaves the record in the
\* store with status declined, an accept leaves it with status accepted,
\* and both leave its id, from and to as they were.
C21_TerminalStatus ==
    ev.op \in {"acceptRequest", "declineRequest"} =>
        LET d == ev.data IN
        (d.id \in DOMAIN d.before /\ Field(d.before[d.id], "status") = "pending") =>
            /\ d.id \in DOMAIN d.after
            /\ d.after[d.id].status =
                  (IF ev.op = "acceptRequest" THEN "accepted" ELSE "declined")
            /\ \A f \in {"id", "from", "to"} : d.after[d.id][f] = d.before[d.id][f]


\* C22: an accept or a decline is made by the session of the request's
\* addressee only, and a request is created with its sender's uid as from
\* and with status pending.
C22_RecipientOnly ==
    /\ ev.op \in {"acceptRequest", "declineRequest"} =>
          LET d == ev.data IN
          (d.id \in DOMAIN d.before /\ "to" \in DOMAIN d.before[d.id]) =>
              d.before[d.id].to = CurUid(ev.c)
    /\ ev.op = "sendRequest" =>
          LET d == ev.data IN
          /\ d.after[d.id].status = "pending"
          /\ d.after[d.id].from = CurUid(ev.c)
          /\ d.after[d.id].to # CurUid(ev.c)

\* C22 witness: the addressee accepted or declined a request while the store
\* held a pending request that the same user had sent
C22_Witness ==
    /\ ev.op \in {"acceptRequest", "declineRequest"}
    /\ ev.data.id \in DOMAIN ev.data.before
    /\ \E k \in DOMAIN ev.data.before :
          /\ Field(ev.data.before[k], "from") = CurUid(ev.c)
          /\ Field(ev.data.before[k], "status") = "pending"

\* C23: a send adds one pending record from the sender to the addressee
\* under an id the store did not hold and leaves the records the store held
\* as they were, whatever requests between the two exist.
C23_NeverDeduplicated ==
    ev.op = "sendRequest" =>
        LET d == ev.data IN
        /\ d.id \notin DOMAIN d.before
        /\ DOMAIN d.after = DOMAIN d.before \cup {d.id}
        /\ d.after[d.id] = FriendRequest(d.id, d.from, d.to, "pending")
        /\ \A k \in DOMAIN d.before : d.after[k] = d.before[k]

\* C23 witness: a request was sent while the store held a pending request
\* of the same sender to the same addressee
C23_Witness ==
    /\ ev.op = "sendRequest"
    /\ \E k \in DOMAIN ev.data.before :
          /\ Field(ev.data.before[k], "from") = ev.data.from
          /\ Field(ev.data.before[k], "to") = ev.data.to
          /\ Field(ev.data.before[k], "status") = "pending"

\* a request was sent while the store held an accepted request of the same
\* sender to the same addressee
C23_AfterAccepted ==
    /\ ev.op = "sendRequest"
    /\ \E k \in DOMAIN ev.data.before :
          /\ Field(ev.data.before[k], "from") = ev.data.from
          /\ Field(ev.data.before[k], "to") = ev.data.to
          /\ Field(ev.data.before[k], "status") = "accepted"


----------------------------------------------------------------------------
(* The directory specification: a session of u1 whose listeners have       *)
(* delivered a directory of three accounts and a list of requests.         *)

U3 == <<117, 51>>
DirUids == {U1, U2, U3}

\* types.ts UserProfile with its privacy and administrator flags
Account(u, private, admin) ==
    [uid |-> u, status |-> "offline", isPrivate |-> private, isAdmin |-> admin]

\* the requests a directory state may hold: one request between two accounts
DirRequests ==
    {FriendRequest(KeyR1, a, b, st) :
        a \in DirUids, b \in DirUids, st \in {"pending", "accepted"}} \
    {FriendRequest(KeyR1, a, a, st) : a \in DirUids, st \in {"pending", "accepted"}}

InitDir ==
    \E admin \in BOOLEAN : \E p2 \in BOOLEAN : \E p3 \in BOOLEAN :
    \E reqs \in {Null} \cup {OneChild(KeyR1, r) : r \in DirRequests} :
        /\ dbUsers = [u \in DirUids |->
              IF u = U1 THEN [Account(U1, FALSE, admin) EXCEPT !.status = "online"]
              ELSE Account(u, IF u = U2 THEN p2 ELSE p3, FALSE)]
        /\ dbChats = Null /\ dbGroups = Null /\ dbRequests = reqs
        /\ dbCalls = Null /\ dbTyping = Null
        /\ dbOnDisconnect = {U1}
        /\ authUser = [c \in Clients |-> IF c = "c1" THEN U1 ELSE Null]
        /\ authQueue = [c \in Clients |-> IF c = "c1" THEN <<>> ELSE <<Null>>]
        /\ loading = [c \in Clients |-> c # "c1"]
        /\ currentUser = [c \in Clients |-> IF c = "c1" THEN dbUsers[U1] ELSE Null]
        /\ activeTab = [c \in Clients |-> "home"]
        /\ activeChatId = [c \in Clients |-> Null]
        /\ isGroupChat = [c \in Clients |-> FALSE]
        /\ users = [c \in Clients |-> IF c = "c1" THEN ObjectValues(dbUsers) ELSE <<>>]
        /\ onlineUsers = [c \in Clients |-> {}]
        /\ groups = [c \in Clients |-> <<>>]
        /\ chats = [c \in Clients |-> Null]
        /\ requests = [c \in Clients |-> IF c = "c1" THEN RequestsOnValue(reqs, <<>>) ELSE <<>>]
        /\ typingState = [c \in Clients |-> Null]
        /\ callLogs = [c \in Clients |-> <<>>]
        /\ incomingCall = [c \in Clients |-> Null]
        /\ activeCall = [c \in Clients |-> Null]
        /\ profInbox = [c \in Clients |-> IF c = "c1" THEN OneChild(U1, <<>>) ELSE Null]
        /\ effectDep = [c \in Clients |-> IF c = "c1" THEN U1 ELSE Null]
        /\ subs = [c \in Clients |->
              IF c = "c1" THEN [uid |-> U1, users |-> <<>>, activeCall |-> Null] ELSE Null]
        /\ inbox = [c \in Clients |-> EmptyInbox]
        /\ ev = NoEvent
        /\ last = [c \in Clients |-> [k \in Colls |->
              IF c = "c1"
              THEN [seen |-> TRUE, data |-> View(Db, k, U1), dup |-> FALSE, before |-> Null]
              ELSE NotSeen]]
        /\ producedFor = [c \in Clients |->
              [users |-> IF c = "c1" THEN U1 ELSE Null,
               chats |-> IF c = "c1" THEN U1 ELSE Null,
               typingState |-> IF c = "c1" THEN U1 ELSE Null,
               callLogs |-> <<>>, activeCall |-> Null, incomingCall |-> Null]]
        /\ budget = [ext |-> MaxExtEvents, focus |-> "none", logins |-> 1,
                   ends |-> [c \in Clients |-> 0]]
        /\ typingTimeoutRef = [c \in Clients |-> Null]
        /\ inputText = [c \in Clients |-> FALSE]
        /\ pushClock = 0

NextDir == OpenChatStep \/ BackStep

SpecDir == InitDir /\ [][NextDir]_vars

\* an accepted request between uids a and b, in either direction, is in the
\* local list of client c
AcceptedBetween(c, a, b) ==
    \E i \in 1..Len(requests[c]) :
        /\ Field(requests[c][i], "status") = "accepted"
        /\ {Field(requests[c][i], "from"), Field(requests[c][i], "to")} = {a, b}

\* C24 as stated: the thread a viewer opens from the home directory is never
\* the viewer's own; it is that of a private account, for a viewer who is
\* not an administrator, only if an accepted request between the two exists.
C24_PrivateNeedsContact ==
    \A c \in Running :
        (ev.op = "openChat" /\ ev.c = c) =>
            /\ ev.data.uid # CurUid(c)
            /\ (Flag(ev.data, "isPrivate") /\ ~Flag(currentUser[c], "isAdmin")) =>
                  AcceptedBetween(c, ev.data.uid, CurUid(c))


----------------------------------------------------------------------------
(* The call specification: u1 on client "c1" and u2 on client "c2", both   *)
(* signed in with the directory delivered, and a third caller.             *)

\* the accounts and their sessions in the call specification
CallSessions == [c1 |-> U1, c2 |-> U2]

\* initiateCall run by the App of a caller that is not one of the two
\* sessions (App.tsx:351)
peerSignal(caller, callee, type) ==
    /\ budget.ext < MaxExtEvents
    /\ budget' = [budget EXCEPT !.ext = @ + 1]
    /\ dbCalls' = Signalled(dbCalls, PathKey(callee), caller, type)
    /\ ev' = Event("peerSignal", "none",
                   [uid |-> caller, peer |-> callee, type |-> type,
                    before |-> dbCalls, after |-> dbCalls'])
    /\ UNCHANGED <<dbUsers, dbChats, dbGroups, dbRequests, dbTyping, dbOnDisconnect>>
    /\ EmitData(inbox)
    /\ EmitProfile(profInbox)
    /\ UNCHANGED authVars
    /\ Fits
    /\ UNCHANGED <<loading, currentUser, navVars, dataVars, callVars, effectDep, subs,
                   last, producedFor, chatVars>>

\* the session of u1 is a later one on its App (the callbacks of the data
\* effect hold the directory the App kept); the session of u2 is such a one
\* or the first (the effect ran before the directory arrived: its callbacks
\* hold an empty users list); each has opened the thread with the other;
\* the App of u2 keeps the record of an earlier call; dir is the set of
\* registered users
InitCallOf(dir) ==
    \E first \in BOOLEAN :
    LET held == [c1 |-> TRUE, c2 |-> ~first] IN
        /\ dbUsers = [u \in dir |-> Profile(u, "online")]
        /\ dbChats = Null /\ dbGroups = Null /\ dbRequests = Null
        /\ dbCalls = Null /\ dbTyping = Null
        /\ dbOnDisconnect = dir
        /\ authUser = [c \in Clients |-> CallSessions[c]]
        /\ authQueue = [c \in Clients |-> <<>>]
        /\ loading = [c \in Clients |-> FALSE]
        /\ currentUser = [c \in Clients |-> Profile(CallSessions[c], "online")]
        /\ activeTab = [c \in Clients |-> "chat"]
        /\ activeChatId = [c \in Clients |-> getChatId(U1, U2)]
        /\ isGroupChat = [c \in Clients |-> FALSE]
        /\ users = [c \in Clients |-> ObjectValues(dbUsers)]
        /\ onlineUsers = [c \in Clients |-> dir]
        /\ groups = [c \in Clients |-> <<>>]
        /\ chats = [c \in Clients |-> Null]
        /\ requests = [c \in Clients |-> <<>>]
        /\ typingState = [c \in Clients |-> Null]
        /\ callLogs = [c1 |-> <<>>, c2 |-> <<CallLog("voice", U1)>>]
        /\ incomingCall = [c \in Clients |-> Null]
        /\ activeCall = [c \in Clients |-> Null]
        /\ profInbox = [c \in Clients |-> OneChild(CallSessions[c], <<>>)]
        /\ effectDep = [c \in Clients |-> CallSessions[c]]
        /\ subs = [c \in Clients |->
              [uid |-> CallSessions[c],
               users |-> IF held[c] THEN ObjectValues(dbUsers) ELSE <<>>,
               activeCall |-> Null]]
        /\ inbox = [c \in Clients |-> EmptyInbox]
        /\ ev = NoEvent
        /\ last = [c \in Clients |-> [k \in Colls |->
              [seen |-> TRUE, data |-> View(Db, k, CallSessions[c]), dup |-> FALSE,
               before |-> Null]]]
        /\ producedFor = [c \in Clients |->
              [users |-> CallSessions[c], chats |-> CallSessions[c],
               typingState |-> CallSessions[c],
               callLogs |-> [k \in 1..Len(callLogs[c]) |-> CallSessions[c]],
               activeCall |-> Null, incomingCall |-> Null]]
        /\ budget = [ext |-> MaxExtEvents - 1, focus |-> "calls", logins |-> 1,
                   ends |-> [c \in Clients |-> 0]]
        /\ typingTimeoutRef = [c \in Clients |-> Null]
        /\ inputText = [c \in Clients |-> FALSE]
        /\ pushClock = 0

\* the directory holds the users of the two sessions
InitCall == InitCallOf(Uids)

\* the directory holds the third caller too
InitTrio == InitCallOf(DirUids)

\* u1 places calls of either type; u2 and the third caller place video calls
NextCall ==
    \/ \E type \in CallTypes : initiateCall("c1", type)
    \/ initiateCall("c2", "video")
    \/ \E c \in Clients : callsListener(c)
    \/ \E c \in Clients : answerCall(c)
    \/ \E c \in Clients : endCall(c)
    \/ peerSignal(U3, U2, "video")

SpecCall == InitCall /\ [][NextCall]_vars

SpecTrio == InitTrio /\ [][NextCall]_vars


----------------------------------------------------------------------------
(* Properties of call signalling, checked under SpecCall.                  *)

\* the signal in the slot of uid in a value of the calls collection, or Null
SlotOf(db, uid) == IF PathKey(uid) \in DOMAIN db THEN db[PathKey(uid)] ELSE Null

\* C25: an initiated call leaves in the callee's slot the caller's uid and
\* the call's type, and the caller holds an active call with the callee of
\* that type, which no delivery takes away; an accept of a prompt leaves the
\* accepting user's slot absent and no prompt, and the callee holds an
\* active call with the caller of the prompt's type.
C25_Handshake ==
    /\ ev.op = "initiateCall" =>
          LET d == ev.data IN
          /\ SlotOf(d.after, d.peer) = [callerId |-> d.uid, type |-> d.type]
          /\ d.callAfter.peer.uid = d.peer /\ d.callAfter.type = d.type
          /\ activeCall[ev.c] = d.callAfter
    /\ ev.op = "answerCall" =>
          LET d == ev.data IN
          /\ SlotOf(d.after, d.uid) = Null
          /\ d.promptAfter = Null
          /\ d.callAfter = [peer |-> d.prompt.from, type |-> d.prompt.type]
          /\ activeCall[ev.c] = d.callAfter

\* C25 witness: u2 has accepted the call u1 initiated: the slot of u2 held
\* the signal of u1, and both sessions hold an active call with each other
\* of the call's type
C25_Witness ==
    /\ ev.op = "answerCall"
    /\ ev.c = "c2"
    /\ SlotOf(ev.data.before, U2) = [callerId |-> U1, type |-> ev.data.prompt.type]
    /\ SlotOf(dbCalls, U2) = Null
    /\ incomingCall["c2"] = Null
    /\ activeCall["c1"] # Null /\ activeCall["c2"] # Null
    /\ activeCall["c1"].peer.uid = U2 /\ activeCall["c2"].peer.uid = U1
    /\ activeCall["c1"].type = activeCall["c2"].type


\* C26: a session that holds no active call and whose calls listener has
\* processed a snapshot of its slot holding the signal of a registered
\* caller shows an incoming-call prompt naming that caller and that type,
\* whether its subscriptions were made before or after the directory arrived.
C26_RingsWhenObserved ==
    \A c \in Clients :
        LET seen == last[c].calls IN
        (/\ seen.seen
         /\ seen.data # Null
         /\ seen.data.callerId \in Uids
         /\ activeCall[c] = Null)
        => /\ incomingCall[c] # Null
           /\ incomingCall[c].from.uid = seen.data.callerId
           /\ incomingCall[c].type = seen.data.type


\* C27: no step sets an incoming-call prompt on a session that holds an
\* active call when the step is taken: while the call lasts the prompt
\* changes only by being cleared.
C27_FirstCallPriority ==
    [][\A c \in Clients :
          (activeCall[c] # Null /\ incomingCall'[c] # incomingCall[c])
          => incomingCall'[c] = Null]_vars


\* the user on the other side of an ended call or of a declined prompt
OtherParty(d) == IF d.call # Null THEN d.call.peer.uid ELSE d.prompt.from.uid

\* C28: after the end of an active call and after the decline of an
\* incoming call, the slot of the local user and the slot of the other
\* party are both absent from the store.
C28_BothSlotsCleared ==
    ev.op = "endCall" =>
        /\ SlotOf(ev.data.after, ev.data.uid) = Null
        /\ SlotOf(ev.data.after, OtherParty(ev.data)) = Null


\* C29: once a user has ended a call or declined a prompt and every calls
\* snapshot written so far has been processed, no session is left holding an
\* active call with that user.
C29_BothIdleAfterEnd ==
    (/\ ev.op = "endCall"
     /\ \A c \in Clients : inbox[c].calls = <<>>)
    => \A c \in Clients :
          activeCall[c] # Null => activeCall[c].peer.uid # ev.data.uid


\* C30: when a caller signals a callee whose slot holds the signal of
\* another caller, the slot holds the later signal alone, the step changes
\* nothing in the earlier caller's session (no prompt, no pending snapshot,
\* no loss of its call), and both callers hold a local active call.
C30_LastWriterWins ==
    [][\A c \in Clients :
          LET callee == IF c = "c1" THEN U2 ELSE U1
              old == SlotOf(dbCalls, callee)
              new == SlotOf(dbCalls', callee)
          IN (/\ old # Null
              /\ old.callerId = CurUid(c)
              /\ activeCall[c] # Null
              /\ ev'.op \in {"peerSignal", "initiateCall"}
              /\ ev' # ev
              /\ ev'.data.peer = callee
              /\ ev'.data.uid # CurUid(c))
             => /\ new = [callerId |-> ev'.data.uid, type |-> ev'.data.type]
                /\ inbox'[c] = inbox[c]
                /\ incomingCall'[c] = incomingCall[c]
                /\ activeCall'[c] = activeCall[c]
                /\ ev'.c \in Clients => activeCall'[ev'.c] # Null]_vars

\* C30 witness: the third caller has signalled u2 over the signal of u1,
\* the slot holds the third caller's signal, and u1 still holds its call
C30_Witness ==
    /\ ev.op = "peerSignal"
    /\ SlotOf(ev.data.before, U2) # Null
    /\ SlotOf(ev.data.before, U2).callerId = U1
    /\ SlotOf(ev.data.after, U2) = [callerId |-> U3, type |-> "video"]
    /\ activeCall["c1"] # Null
    /\ activeCall["c1"].peer.uid = U2


\* C31: the end of an active call leaves the local call history equal to one
\* new record, of the call's type, the peer's uid and duration 0, followed
\* by the records held before, unchanged; the decline of a prompt while no
\* call is active leaves the history as it was.
C31_OneRecordFirst ==
    ev.op = "endCall" =>
        LET d == ev.data IN
        /\ callLogs[ev.c] = d.logsAfter
        /\ IF d.call # Null
           THEN d.logsAfter =
                   <<[type |-> d.call.type, peerId |-> d.call.peer.uid, duration |-> 0]>>
                   \o d.logsBefore
           ELSE d.logsAfter = d.logsBefore

\* C31 witness: a session that kept an earlier record has ended an active call
C31_Witness ==
    /\ ev.op = "endCall"
    /\ ev.data.call # Null
    /\ ev.data.logsBefore # <<>>
    /\ Len(callLogs[ev.c]) = Len(ev.data.logsBefore) + 1

\* the decline of a prompt by a session that holds no call and keeps a record
C31_Declined ==
    /\ ev.op = "endCall"
    /\ ev.data.call = Null
    /\ ev.data.logsBefore # <<>>


\* C39: no session holds an active call and an incoming-call prompt at the
\* same time.
C39_CallOrPrompt ==
    \A c \in Clients : ~(activeCall[c] # Null /\ incomingCall[c] # Null)


\* C38: the end of a call and the decline of a prompt remove from the slot
\* of the local user and from the slot of the other party no signal whose
\* caller is neither of the two.
C38_OnlyOwnSignals ==
    ev.op = "endCall" =>
        LET d == ev.data
            pair == {d.uid, OtherParty(d)}
        IN \A x \in pair :
              (SlotOf(d.before, x) # Null /\ SlotOf(d.after, x) = Null)
              => SlotOf(d.before, x).callerId \in pair


\* the sessions of user uid: the Apps on which uid is the current user
SessionsOf(uid) == {c \in Clients : currentUser[c] # Null /\ currentUser[c].uid = uid}

\* C37: whenever the slot of a user holds the signal of a caller whose App
\* is one of the two, the caller has a session, and it holds an active call
\* whose peer is that user.
C37_NoStaleSignal ==
    \A x \in DirUids :
        (SlotOf(dbCalls, x) # Null /\ SlotOf(dbCalls, x).callerId \in Uids) =>
            \E c \in SessionsOf(SlotOf(dbCalls, x).callerId) :
                activeCall[c] # Null /\ activeCall[c].peer.uid = x


\* C40: every record of the requests collection in the store has an id, a
\* sender, an addressee and a status among pending, accepted and declined.
C40_WellFormedRequests ==
    \A id \in DOMAIN dbRequests :
        LET r == dbRequests[id] IN
        /\ {"id", "from", "to", "status"} \subseteq DOMAIN r
        /\ r.id = id
        /\ r.status \in {"pending", "accepted", "declined"}


\* C35: on every client at most one timer is armed for each chat id, and it
\* is the one the chat's slot refers to; a step changes the slot of a chat
\* other than the open one only by the firing of that chat's own timer.
C35_OneTimerPerChat ==
    [][\A c \in Clients : \A chatId \in DOMAIN typingTimeoutRef'[c] :
          LET new == typingTimeoutRef'[c][chatId] IN
          /\ new.live <= 1
          /\ new.pending <=> new.live = 1
          /\ (chatId # activeChatId[c] /\ chatId \in DOMAIN typingTimeoutRef[c])
             => \/ new = typingTimeoutRef[c][chatId]
                \/ typingTimeoutRef[c][chatId].pending /\ ~new.pending]_vars

\* C35 witness: a keystroke has re-armed the timer of the open chat while
\* the timer of another chat is armed
C35_Witness ==
    /\ ev.op = "handleLocalTyping"
    /\ \E a, b \in DOMAIN typingTimeoutRef["c1"] :
          /\ a # b
          /\ a = ev.data.chatId
          /\ a \in DOMAIN ev.data.timersBefore
          /\ ev.data.timersBefore[a].pending
          /\ typingTimeoutRef["c1"][a].pending
          /\ typingTimeoutRef["c1"][b].pending


\* C36: every message stored in a thread has an id field, equal to the key
\* under which the thread stores it.
C36_IdIsKey ==
    \A chatId \in DOMAIN dbChats : \A key \in DOMAIN dbChats[chatId] :
        LET m == dbChats[chatId][key] IN
        "id" \in DOMAIN m /\ m.id = key


----------------------------------------------------------------------------
(* The administration specification: the session of the administrator u1   *)
(* with the profile and admin views, the broadcast, and the remote         *)
(* revocation of the administrator flag.                                   *)

\* App.tsx:317-318  the users the forEach of handleBroadcast pushes to, in
\* the order of the list
RECURSIVE Recipients(_, _)
Recipients(list, uid) ==
    IF list = <<>> THEN <<>>
    ELSE (IF Head(list).uid # uid THEN <<Head(list).uid>> ELSE <<>>)
         \o Recipients(Tail(list), uid)

\* the mutant of FanOut: the first rejected push ends the loop
RECURSIVE FanOutAborting(_, _, _, _, _, _)
FanOutAborting(db, sender, uids, clock, ts, failed) ==
    IF uids = <<>> \/ Head(uids) \in failed THEN db
    ELSE FanOutAborting(Appended(db, getChatId(sender, Head(uids)), PushKey(clock + 1),
                                 BroadcastMessage(sender, ts)),
                        sender, Tail(uids), clock + 1, ts, failed)

\* App.tsx:317-322  the pushes of handleBroadcast, one per recipient, each
\* with a key of its own; failed holds the recipients whose push the store
\* rejects, which the loop neither awaits nor catches
RECURSIVE FanOut(_, _, _, _, _, _)
FanOut(db, sender, uids, clock, ts, failed) ==
    IF uids = <<>> THEN db
    ELSE FanOut(IF Head(uids) \in failed THEN db
                ELSE Appended(db, getChatId(sender, Head(uids)), PushKey(clock + 1),
                              BroadcastMessage(sender, ts)),
                sender, Tail(uids), clock + 1, ts, failed)

\* App.tsx:307-324, 446  handleBroadcast, from the admin view; the chats
\* listener is handed the snapshot after the last push
handleBroadcast(c, failed) ==
    /\ ViewsShown(c)
    /\ activeTab[c] = "admin"
    /\ LET uids == Recipients(users[c], CurUid(c)) IN
       /\ failed \subseteq {uids[i] : i \in 1..Len(uids)}
       /\ pushClock + Len(uids) <= MaxPushes
       /\ pushClock' = pushClock + Len(uids)
       /\ dbChats' = FanOut(dbChats, CurUid(c), uids, pushClock, LocalNow, failed)
       /\ ev' = Event("handleBroadcast", c,
                      [uid |-> CurUid(c), admin |-> Flag(currentUser[c], "isAdmin"),
                       uids |-> uids, failed |-> failed,
                       before |-> dbChats, after |-> dbChats'])
    /\ UNCHANGED <<dbUsers, dbGroups, dbRequests, dbCalls, dbTyping, dbOnDisconnect>>
    /\ EmitData(inbox)
    /\ EmitProfile(profInbox)
    /\ UNCHANGED authVars
    /\ Fits
    /\ UNCHANGED <<loading, currentUser, navVars, dataVars, callVars, effectDep, subs,
                   last, producedFor, budget, typingTimeoutRef, inputText>>

\* App.tsx:438, 870  onGoAdmin, the button the profile view shows to an
\* administrator
onGoAdmin(c) ==
    /\ ViewsShown(c)
    /\ activeTab[c] = "profile"
    /\ Flag(currentUser[c], "isAdmin")
    /\ activeTab' = [activeTab EXCEPT ![c] = "admin"]
    /\ ev' = NoEvent
    /\ UNCHANGED <<dbVars, authVars, loading, currentUser, activeChatId, isGroupChat,
                   dataVars, callVars, subVars, producedFor, last, budget, chatVars>>

\* App.tsx:446  onBack of the admin view
onAdminBack(c) ==
    /\ ViewsShown(c)
    /\ activeTab[c] = "admin"
    /\ activeTab' = [activeTab EXCEPT ![c] = "profile"]
    /\ ev' = NoEvent
    /\ UNCHANGED <<dbVars, authVars, loading, currentUser, activeChatId, isGroupChat,
                   dataVars, callVars, subVars, producedFor, last, budget, chatVars>>

\* another writer clears the administrator flag of uid in the store
revokeAdmin(uid) ==
    /\ uid \in DOMAIN dbUsers
    /\ Flag(dbUsers[uid], "isAdmin")
    /\ dbUsers' = [dbUsers EXCEPT ![uid].isAdmin = FALSE]
    /\ ev' = NoEvent
    /\ UNCHANGED <<dbChats, dbGroups, dbRequests, dbCalls, dbTyping, dbOnDisconnect>>
    /\ EmitData(inbox)
    /\ EmitProfile(profInbox)
    /\ UNCHANGED authVars
    /\ Fits
    /\ UNCHANGED <<loading, currentUser, navVars, dataVars, callVars, effectDep, subs,
                   last, producedFor, budget, chatVars>>

\* the threads the store may hold before a broadcast: one of u1 and u2, one
\* of u2 and u3, and one of a group, each with one earlier message
EarlierChats ==
    [chatId \in {ThreadU1U2, getChatId(U2, U3), ThreadG1} |->
        OneChild(PushKey(0), SentMessage(PushKey(0), U2, 0))]

\* the administrator u1 is signed in on client "c1" and looks at the profile
\* view; the directory of three accounts and the threads have been delivered
InitAdmin ==
    \E earlier \in {Null, EarlierChats} :
        /\ dbUsers = [u \in DirUids |->
              IF u = U1 THEN [Account(U1, FALSE, TRUE) EXCEPT !.status = "online"]
              ELSE Account(u, FALSE, FALSE)]
        /\ dbChats = earlier
        /\ dbGroups = Null /\ dbRequests = Null
        /\ dbCalls = Null /\ dbTyping = Null
        /\ dbOnDisconnect = {U1}
        /\ authUser = [c \in Clients |-> IF c = "c1" THEN U1 ELSE Null]
        /\ authQueue = [c \in Clients |-> IF c = "c1" THEN <<>> ELSE <<Null>>]
        /\ loading = [c \in Clients |-> c # "c1"]
        /\ currentUser = [c \in Clients |-> IF c = "c1" THEN dbUsers[U1] ELSE Null]
        /\ activeTab = [c \in Clients |-> IF c = "c1" THEN "profile" ELSE "home"]
        /\ activeChatId = [c \in Clients |-> Null]
        /\ isGroupChat = [c \in Clients |-> FALSE]
        /\ users = [c \in Clients |-> IF c = "c1" THEN ObjectValues(dbUsers) ELSE <<>>]
        /\ onlineUsers = [c \in Clients |-> IF c = "c1" THEN {U1} ELSE {}]
        /\ groups = [c \in Clients |-> <<>>]
        /\ chats = [c \in Clients |-> IF c = "c1" THEN ChatsOnValue(earlier, Null) ELSE Null]
        /\ requests = [c \in Clients |-> <<>>]
        /\ typingState = [c \in Clients |-> Null]
        /\ callLogs = [c \in Clients |-> <<>>]
        /\ incomingCall = [c \in Clients |-> Null]
        /\ activeCall = [c \in Clients |-> Null]
        /\ profInbox = [c \in Clients |-> IF c = "c1" THEN OneChild(U1, <<>>) ELSE Null]
        /\ effectDep = [c \in Clients |-> IF c = "c1" THEN U1 ELSE Null]
        /\ subs = [c \in Clients |->
              IF c = "c1" THEN [uid |-> U1, users |-> <<>>, activeCall |-> Null] ELSE Null]
        /\ inbox = [c \in Clients |-> EmptyInbox]
        /\ ev = NoEvent
        /\ last = [c \in Clients |-> [k \in Colls |->
              IF c = "c1"
              THEN [seen |-> TRUE, data |-> View(Db, k, U1), dup |-> FALSE, before |-> Null]
              ELSE NotSeen]]
        /\ producedFor = [c \in Clients |->
              [users |-> IF c = "c1" THEN U1 ELSE Null,
               chats |-> IF c = "c1" THEN U1 ELSE Null,
               typingState |-> IF c = "c1" THEN U1 ELSE Null,
               callLogs |-> <<>>, activeCall |-> Null, incomingCall |-> Null]]
        /\ budget = [ext |-> MaxExtEvents, focus |-> "none", logins |-> 1,
                   ends |-> [c \in Clients |-> 0]]
        /\ typingTimeoutRef = [c \in Clients |-> Null]
        /\ inputText = [c \in Clients |-> FALSE]
        /\ pushClock = 0

NextAdmin ==
    \/ \E c \in Running : onGoAdmin(c)
    \/ \E c \in Running : onAdminBack(c)
    \/ BackStep \/ ProfileTabStep
    \/ \E c \in Running : \E failed \in SUBSET DirUids : handleBroadcast(c, failed)
    \/ \E uid \in DirUids : revokeAdmin(uid)
    \/ ProfileStep \/ UsersStep \/ ChatsStep

SpecAdmin == InitAdmin /\ [][NextAdmin]_vars


----------------------------------------------------------------------------
(* Properties of the broadcast, checked under SpecAdmin.                   *)

\* the keys a thread holds after a step and did not hold before it
AddedKeys(before, after, chatId) ==
    DOMAIN Thread(after, chatId) \ DOMAIN Thread(before, chatId)

\* every message a thread held before a step is held unchanged after it
KeptMessages(before, after) ==
    \A chatId \in DOMAIN before :
        /\ chatId \in DOMAIN after
        /\ \A key \in DOMAIN before[chatId] :
              key \in DOMAIN after[chatId] /\ after[chatId][key] = before[chatId][key]

\* C32: a broadcast of administrator A none of whose pushes is rejected adds
\* to the thread of A and u, for every user u of the directory other than
\* A, exactly one message, with isBroadcast true, status read and sender
\* name SYSTEM; it adds nothing to any other thread and changes no message.
C32_OnePerUser ==
    (ev.op = "handleBroadcast" /\ ev.data.failed = {}) =>
        LET d == ev.data
            others == {u \in DOMAIN dbUsers : u # d.uid}
            own == {getChatId(d.uid, u) : u \in others}
        IN /\ KeptMessages(d.before, d.after)
           /\ \A chatId \in own :
                 /\ Cardinality(AddedKeys(d.before, d.after, chatId)) = 1
                 /\ \A key \in AddedKeys(d.before, d.after, chatId) :
                       LET m == d.after[chatId][key] IN
                       /\ m.isBroadcast = TRUE
                       /\ m.status = "read"
                       /\ m.senderName = "SYSTEM"
           /\ \A chatId \in (DOMAIN d.after) \ own :
                 AddedKeys(d.before, d.after, chatId) = {}

\* C32 witness: the administrator u1 has broadcast while the store held
\* earlier messages, and the threads with u2 and with u3 have one more each
C32_Witness ==
    /\ ev.op = "handleBroadcast"
    /\ ev.data.failed = {}
    /\ ev.data.admin
    /\ ev.data.before = EarlierChats
    /\ Cardinality(DOMAIN Thread(ev.data.after, ThreadU1U2)) = 2
    /\ Cardinality(DOMAIN Thread(ev.data.after, getChatId(U1, U3))) = 1

\* C33: every broadcast is invoked by a session whose current user holds
\* the administrator flag when it is invoked.
C33_AdminOnly ==
    ev.op = "handleBroadcast" => ev.data.admin

\* C34: after a broadcast some of whose pushes are rejected, the thread of
\* every recipient whose push is not rejected has gained exactly one
\* message, wherever the rejected recipients stand in the list, the threads
\* of the rejected recipients have gained none, and no message is lost.
C34_BestEffort ==
    ev.op = "handleBroadcast" =>
        LET d == ev.data IN
        /\ KeptMessages(d.before, d.after)
        /\ \A i \in 1..Len(d.uids) :
              Cardinality(AddedKeys(d.before, d.after, getChatId(d.uid, d.uids[i])))
                 = IF d.uids[i] \in d.failed THEN 0 ELSE 1

\* C34 witness: the push to the first recipient was rejected and the thread
\* of a later recipient has gained its message
C34_Witness ==
    /\ ev.op = "handleBroadcast"
    /\ Len(ev.data.uids) = 2
    /\ ev.data.failed = {ev.data.uids[1]}
    /\ AddedKeys(ev.data.before, ev.data.after, getChatId(ev.data.uid, ev.data.uids[2])) # {}
    /\ ev.data.before # Null

====
